---- MODULE Spec2Model ----
(***************************************************************************)
(* Model of d-krupke/MLST-INGA: the reliable sleep-enabled unicast (RSU,   *)
(* src/rsunicast), its duplicate history, the public variable              *)
(* neighborhood (PVN) and the MLST round process (src/mlst_network.h).     *)
(*                                                                         *)
(* Every node is a record of the C globals of one mote; a handler of the   *)
(* C code is an operator from the record before the call to the record     *)
(* after it (plus the packets it hands to the radio), and an action        *)
(* applies one handler at one node.  Handlers run to completion (Contiki   *)
(* is cooperative), so one handler is one step.                            *)
(***************************************************************************)
EXTENDS Integers, Sequences, FiniteSets, Bags, TLC

VARIABLES
    rsu,        \* [node -> the RSU globals of rsunicast.h / rsunicast_history.h]
    net,        \* unicast packets in flight (data and ACK)
    sendsLeft,  \* [node -> mlst_send calls the application still makes]
    lossLeft,   \* packets the medium may still lose; -1: any number, and packets may be late
    seen,       \* ghost: [node -> (from, seqno, msg) already delivered / forwarded there]
    ev,         \* ghost: what the last handler did
    mlst_pvn,   \* [node -> the struct PVN mlst_pvn with its neighbor list]
    mlst,       \* [node -> the MLST globals of mlst_network.h]
    links,      \* the radio links: the pairs of nodes that hear each other
    rounds,     \* [node -> periods of mlst_process ended in the current clock second]
    clock       \* clock_seconds() in a run that counts them; -1: not counted

rsuVars == <<rsu, net, sendsLeft, lossLeft, seen, ev>>
mlstVars == <<mlst_pvn, mlst, links, rounds, clock>>
vars == <<rsu, net, sendsLeft, lossLeft, seen, ev, mlst_pvn, mlst, links, rounds, clock>>

(***************************************************************************)
(* Program constants                                                       *)
(***************************************************************************)
MAX_TRIES == 5
MAX_HISTORY_SIZE == 30

(***************************************************************************)
(* Bounds of the model                                                     *)
(***************************************************************************)
\* mlst_send calls of the sending node in the retry scenario
MaxSends == 2
\* unicast packets the radio medium holds at once
MaxInFlight == 2
\* packets the medium loses in the forwarding scenario
MaxLoss == 1

Nodes == {1, 2, 3, 4}
\* the node compiled with #define ROOT
IsRoot(n) == n = 1

U8(x) == x % 256
U16(x) == x % 65536

(***************************************************************************)
(* rsunicast_history.h                                                     *)
(***************************************************************************)
\* a history is [list |-> sequence of [id, seqno], size |-> rsu_history_size]
EmptyHistory == [list |-> <<>>, size |-> 0]

rsu_check_history(h, from, seqno) ==
    IF \E i \in 1..Len(h.list) : h.list[i].id = from /\ h.list[i].seqno = seqno
    THEN 1 ELSE 0

\* lines 54-59: while the head is an entry of `from`, unlink it and count down
RECURSIVE StripHead(_, _)
StripHead(h, from) ==
    IF h.list # <<>> /\ Head(h.list).id = from
    THEN StripHead([list |-> Tail(h.list), size |-> U8(h.size + 255)], from)
    ELSE h

RemoveAt(s, i) == SubSeq(s, 1, i - 1) \o SubSeq(s, i + 1, Len(s))

\* lines 70-85: for(;tmp!=0; tmp = tmp->next), tmp being the i-th entry.
\* Reaching the last entry appends and breaks; an old entry of `from` behind
\* tmp is unlinked (the size is not counted down) and the loop steps to the
\* entry that followed it, leaving the loop without appending when there is none.
RECURSIVE AppendLoop(_, _, _, _)
AppendLoop(h, i, from, seqno) ==
    IF i > Len(h.list) THEN h
    ELSE IF i = Len(h.list)
         THEN [list |-> Append(h.list, [id |-> from, seqno |-> seqno]),
               size |-> U8(h.size + 1)]
         ELSE IF h.list[i + 1].id = from
              THEN AppendLoop([h EXCEPT !.list = RemoveAt(h.list, i + 1)],
                              i + 1, from, seqno)
              ELSE AppendLoop(h, i + 1, from, seqno)

\* lines 88-93: drop the oldest while the counter exceeds MAX_HISTORY_SIZE
RECURSIVE CleanOldest(_)
CleanOldest(h) ==
    IF h.size > MAX_HISTORY_SIZE /\ h.list # <<>>
    THEN CleanOldest([list |-> Tail(h.list), size |-> U8(h.size + 255)])
    ELSE h

rsu_add_history(h, from, seqno) ==
    LET s1 == StripHead(h, from)
        s2 == IF s1.list = <<>>
              THEN [list |-> <<[id |-> from, seqno |-> seqno]>>,
                    size |-> U8(s1.size + 1)]
              ELSE AppendLoop(s1, 1, from, seqno)
    IN  CleanOldest(s2)

(***************************************************************************)
(* rsunicast.h: the globals of one node                                    *)
(***************************************************************************)
\* a queue element: the envelope (seqno byte, application bytes) and tries.
\* Ghosts: fails, the failure callbacks invoked while it was the head, and
\* idle, whether rsu_send_next_message ran for it without a parent
Elem(seqno, msg) ==
    [seqno |-> seqno, msg |-> msg, tries |-> 0, fails |-> 0, idle |-> FALSE]
NoElem == [seqno |-> -1, msg |-> <<0, 0>>, tries |-> 0, fails |-> 0, idle |-> FALSE]
NoPkt == [kind |-> "none", from |-> 0, to |-> 0, seqno |-> -1, msg |-> <<0, 0>>]

\* the packet unicast_send(&rsu_data_channel) emits: the envelope of e
DataPkt(self, to, e) ==
    [kind |-> "data", from |-> self, to |-> to, seqno |-> e.seqno, msg |-> e.msg]
\* the ACK 'A' answering data packet p; seqno and msg are ghosts naming p
AckPkt(self, p) ==
    [kind |-> "ack", from |-> self, to |-> p.from, seqno |-> p.seqno, msg |-> p.msg]

\* the globals at program start (lines 71-80, 184; rsunicast_history.h 31-32)
RsuBoot ==
    [queue |-> <<>>, seqno |-> 0, is_online |-> 0, is_allowed_to_sleep |-> 0,
     parent |-> 0, messages_in_queue |-> 0, timer |-> "off",
     onLostMessageCB |-> 0, new_message_for_root_cb |-> 0,
     history |-> EmptyHistory]

\* what a handler returns: the globals after it, the packets handed to
\* unicast_send, and ghosts: callbacks invoked, the element it removed
Ret(s) == [s |-> s, tx |-> {}, cb |-> 0, gone |-> NoElem, dup |-> FALSE, dlv |-> <<>>]

rsunicast_init(s) == [s EXCEPT !.is_online = 1]

rsunicast_setparent(s, id) == [s EXCEPT !.parent = id]

rsunicast_setFailureCallback(s, cb) == [s EXCEPT !.onLostMessageCB = cb]

rsunicast_setNewMessageCallback_root(s, cb) == [s EXCEPT !.new_message_for_root_cb = cb]

rsunicast_allowSleeping(s) ==
    [s EXCEPT !.is_allowed_to_sleep = 1,
              !.is_online = IF s.queue = <<>> THEN 0 ELSE @]

rsunicast_disallowSleeping(s) ==
    [s EXCEPT !.is_allowed_to_sleep = 0, !.is_online = 1]

\* faulty variant: the new element is linked in front of the queue
rsunicast_send_AtHead(s, msg) ==
    [s EXCEPT !.is_online = 1,
              !.queue = <<Elem(s.seqno, msg)>> \o @,
              !.seqno = IF s.seqno = 255 THEN 0 ELSE s.seqno + 1,
              !.timer = IF s.queue = <<>> THEN "send" ELSE @,
              !.messages_in_queue = U16(@ + 1)]

\* lines 248-284
rsunicast_send(s, msg) ==
    [s EXCEPT !.is_online = 1,
              !.queue = Append(@, Elem(s.seqno, msg)),
              !.seqno = IF s.seqno = 255 THEN 0 ELSE s.seqno + 1,
              !.timer = IF s.queue = <<>> THEN "send" ELSE @,
              !.messages_in_queue = U16(@ + 1)]

\* faulty variant: the head is sent whatever the parent is
rsu_send_next_message_NoParentCheck(s, self) ==
    [Ret([s EXCEPT !.queue[1].tries = U8(@ + 1), !.timer = "timeout"])
       EXCEPT !.tx = {DataPkt(self, s.parent, s.queue[1])}]

\* lines 125-143 (ctimer callback)
rsu_send_next_message(s, self) ==
    IF s.parent # 0
    THEN [Ret([s EXCEPT !.queue[1].tries = U8(@ + 1), !.timer = "timeout"])
            EXCEPT !.tx = {DataPkt(self, s.parent, s.queue[1])}]
    ELSE Ret([s EXCEPT !.queue[1].idle = TRUE, !.timer = "timeout"])

\* the failure callbacks an element has seen, saturating above MAX_TRIES + 1
CountFail(n) == IF n > MAX_TRIES + 1 THEN n ELSE n + 1

\* faulty variant: the failure callback is invoked only for the element that
\* is discarded
rsu_on_ack_timeout_CallbackAtDiscard(s) ==
    LET drop == s.queue[1].tries > MAX_TRIES
        called == IF s.onLostMessageCB # 0 /\ drop THEN 1 ELSE 0
        head == [s.queue[1] EXCEPT !.fails = IF called = 1 THEN CountFail(@) ELSE @]
        q == IF drop THEN Tail(s.queue) ELSE <<head>> \o Tail(s.queue)
    IN  [Ret([s EXCEPT !.queue = q,
                       !.is_online = IF drop /\ q = <<>> /\ s.is_allowed_to_sleep = 1
                                     THEN 0 ELSE @,
                       !.timer = IF q # <<>> THEN "send" ELSE "off"])
           EXCEPT !.cb = called, !.gone = IF drop THEN head ELSE NoElem]

\* faulty variant: the element is discarded once tries reached MAX_TRIES
rsu_on_ack_timeout_OffByOne(s) ==
    LET called == IF s.onLostMessageCB # 0 THEN 1 ELSE 0
        head == [s.queue[1] EXCEPT !.fails = IF called = 1 THEN CountFail(@) ELSE @]
        drop == head.tries >= MAX_TRIES
        q == IF drop THEN Tail(s.queue) ELSE <<head>> \o Tail(s.queue)
    IN  [Ret([s EXCEPT !.queue = q,
                       !.is_online = IF drop /\ q = <<>> /\ s.is_allowed_to_sleep = 1
                                     THEN 0 ELSE @,
                       !.timer = IF q # <<>> THEN "send" ELSE "off"])
           EXCEPT !.cb = called, !.gone = IF drop THEN head ELSE NoElem]

\* lines 92-121 (ctimer callback)
rsu_on_ack_timeout(s) ==
    LET called == IF s.onLostMessageCB # 0 THEN 1 ELSE 0
        head == [s.queue[1] EXCEPT !.fails = IF called = 1 THEN CountFail(@) ELSE @]
        drop == head.tries > MAX_TRIES
        q == IF drop THEN Tail(s.queue) ELSE <<head>> \o Tail(s.queue)
    IN  [Ret([s EXCEPT !.queue = q,
                       !.is_online = IF drop /\ q = <<>> /\ s.is_allowed_to_sleep = 1
                                     THEN 0 ELSE @,
                       !.timer = IF q # <<>> THEN "send" ELSE "off"])
           EXCEPT !.cb = called, !.gone = IF drop THEN head ELSE NoElem]

\* faulty variant: the channels stay open when the ACK empties the queue
rsu_on_recieve_ack_StaysOpen(s) ==
    IF s.queue = <<>> THEN Ret(s)
    ELSE LET q == Tail(s.queue)
         IN  [Ret([s EXCEPT !.queue = q,
                            !.messages_in_queue = U16(@ + 65535),
                            !.timer = IF q # <<>> THEN "send" ELSE "off"])
                EXCEPT !.gone = s.queue[1]]

\* faulty variant: the ACK stops the timer and does not set it for the next
\* element of the queue
rsu_on_recieve_ack_TimerStopped(s) ==
    IF s.queue = <<>> THEN Ret(s)
    ELSE LET q == Tail(s.queue)
         IN  [Ret([s EXCEPT !.queue = q,
                            !.messages_in_queue = U16(@ + 65535),
                            !.timer = "off",
                            !.is_online = IF q = <<>> /\ s.is_allowed_to_sleep = 1
                                          THEN 0 ELSE @])
                EXCEPT !.gone = s.queue[1]]

\* lines 152-178 (unicast callback of the ACK channel)
rsu_on_recieve_ack(s) ==
    IF s.queue = <<>> THEN Ret(s)
    ELSE LET q == Tail(s.queue)
         IN  [Ret([s EXCEPT !.queue = q,
                            !.messages_in_queue = U16(@ + 65535),
                            !.timer = IF q # <<>> THEN "send" ELSE "off",
                            !.is_online = IF q = <<>> /\ s.is_allowed_to_sleep = 1
                                          THEN 0 ELSE @])
                EXCEPT !.gone = s.queue[1]]

\* faulty variant: a forwarder queues the received envelope with its seqno
\* byte and under the sender's sequence number
rsu_on_new_message_EnvelopeKept(s, self, p) ==
    LET ack == {AckPkt(self, p)}
        known == rsu_check_history(s.history, p.from, p.seqno)
    IN  IF IsRoot(self)
        THEN [Ret(s) EXCEPT !.tx = ack, !.dup = (known # 0),
                            !.dlv = IF s.new_message_for_root_cb # 0 /\ known = 0
                                    THEN <<p.msg>> ELSE <<>>]
        ELSE IF known # 0
             THEN [Ret(s) EXCEPT !.tx = ack, !.dup = TRUE]
             ELSE [Ret([s EXCEPT !.history = rsu_add_history(@, p.from, p.seqno),
                                 !.is_online = 1,
                                 !.queue = Append(@, Elem(p.seqno, <<p.seqno>> \o p.msg)),
                                 !.timer = IF s.queue = <<>> THEN "send" ELSE @,
                                 !.messages_in_queue = U16(@ + 1)])
                     EXCEPT !.tx = ack]

\* faulty variant: the ACK is sent only for a packet the history does not know
rsu_on_new_message_AckNewOnly(s, self, p) ==
    LET ack == {AckPkt(self, p)}
        known == rsu_check_history(s.history, p.from, p.seqno)
    IN  IF IsRoot(self)
        THEN [Ret(s) EXCEPT !.tx = ack, !.dup = (known # 0),
                            !.dlv = IF s.new_message_for_root_cb # 0 /\ known = 0
                                    THEN <<p.msg>> ELSE <<>>]
        ELSE IF known # 0
             THEN [Ret(s) EXCEPT !.dup = TRUE]
             ELSE [Ret(rsunicast_send(
                          [s EXCEPT !.history = rsu_add_history(@, p.from, p.seqno)],
                          p.msg))
                     EXCEPT !.tx = ack]

\* lines 198-237 (unicast callback of the data channel), p the packet received
rsu_on_new_message(s, self, p) ==
    LET ack == {AckPkt(self, p)}
        known == rsu_check_history(s.history, p.from, p.seqno)
    IN  IF IsRoot(self)
        THEN [Ret(s) EXCEPT !.tx = ack, !.dup = (known # 0),
                            !.dlv = IF s.new_message_for_root_cb # 0 /\ known = 0
                                    THEN <<p.msg>> ELSE <<>>]
        ELSE IF known # 0
             THEN [Ret(s) EXCEPT !.tx = ack, !.dup = TRUE]
             ELSE [Ret(rsunicast_send(
                          [s EXCEPT !.history = rsu_add_history(@, p.from, p.seqno)],
                          p.msg))
                     EXCEPT !.tx = ack]

(***************************************************************************)
(* public_variable_neighborhood.h                                          *)
(***************************************************************************)
MAX_AGE_OF_MLST_NBR_IN_SECONDS == 15
MAX_AGE_OF_PARENT == 5
IF_CHANGE_STAY_ACTIVE_FOR_N_PERIODS == 3

Null == [null |-> TRUE]

\* struct Nbr from calloc. The model keeps age = clock_seconds() - timestamp
\* in place of the timestamp (every use of a timestamp is such a difference);
\* ages stop counting above the largest age the code compares with. ptr is the
\* address of the struct: an MLST parent reference is such an address.
MaxAge == MAX_AGE_OF_MLST_NBR_IN_SECONDS + 1
NewNbr(id, addr, ptr) ==
    [id |-> id, addr |-> addr, public_var |-> Null, age |-> MaxAge, ptr |-> ptr]

\* calloc(1, sizeof(struct Nbr)): an address no live entry of the list has
Calloc(nbrList) ==
    CHOOSE a \in 1..(Len(nbrList) + 1) :
        /\ \A i \in DOMAIN nbrList : nbrList[i].ptr # a
        /\ \A b \in 1..(a - 1) : \E i \in DOMAIN nbrList : nbrList[i].ptr = b

\* struct PVN after pvn_init (lines 240-260), pvn_set_comparison_function and
\* pvn_setCallbacks
PvnInit(cmp, callbacks) ==
    [nbrList |-> <<>>, neighborhood_size |-> 0, online |-> 1,
     maximum_age_of_neighbor_information |-> MAX_AGE_OF_MLST_NBR_IN_SECONDS,
     cmp |-> cmp, callbacks |-> callbacks]

pvn_set_online(pvn) == [pvn EXCEPT !.online = 1]
pvn_set_offline(pvn) == [pvn EXCEPT !.online = 0]

\* mlst_network.h 127-133, the comparison MLST installs
pvnCmp(a, b) ==
    IF a.parent_id # b.parent_id \/ a.children_count # b.children_count THEN 1 ELSE 0

\* faulty variant: memcmp is used also when a predicate is installed
Changed_AlwaysBytewise(pvn, old, new) == old # new

\* lines 176-177: the installed predicate, else memcmp
Changed(pvn, old, new) ==
    IF pvn.cmp = 0 THEN old # new ELSE pvnCmp(old, new) # 0

\* lines 162-193: for(; nbr; nbr = nbr->nextNbr), nbr being the i-th entry.
\* r is [pvn, cbs]: the PVN and the callbacks invoked so far.
RECURSIVE NbrLoop(_, _, _, _)
NbrLoop(r, i, id, data) ==
    LET pvn == r.pvn
        nbr == pvn.nbrList[i]
    IN  IF i > Len(pvn.nbrList) THEN r
        ELSE IF nbr.id = id
        THEN IF nbr.public_var = Null
             THEN [pvn |-> [pvn EXCEPT !.nbrList[i].age = 0,
                                       !.nbrList[i].public_var = data,
                                       !.neighborhood_size =
                                           IF pvn.callbacks.onNew # 0 THEN U16(@ + 1) ELSE @],
                   cbs |-> IF pvn.callbacks.onNew # 0
                           THEN Append(r.cbs, [cb |-> "new",
                                               nbr |-> [nbr EXCEPT !.age = 0,
                                                                   !.public_var = data]])
                           ELSE r.cbs]
             ELSE [pvn |-> [pvn EXCEPT !.nbrList[i].age = 0,
                                       !.nbrList[i].public_var = data],
                   cbs |-> IF Changed(pvn, nbr.public_var, data) /\ pvn.callbacks.onChange # 0
                           THEN Append(r.cbs, [cb |-> "change", nbr |-> [nbr EXCEPT !.age = 0]])
                           ELSE r.cbs]
        ELSE IF i = Len(pvn.nbrList)
        THEN \* not in the list: link an empty entry behind the last one; the
             \* sender's address is copied into nbr, the last one (line 191)
             NbrLoop([r EXCEPT !.pvn.nbrList =
                                   Append([@ EXCEPT ![i].addr = id],
                                          NewNbr(id, 0, Calloc(pvn.nbrList)))],
                     i + 1, id, data)
        ELSE NbrLoop(r, i + 1, id, data)

\* faulty variant: a new entry is always linked in, also for a known sender
on_new_neighbor_information_NoLookup(pvn, id, data) ==
    LET k == Len(pvn.nbrList) + 1
        e == [NewNbr(id, id, Calloc(pvn.nbrList)) EXCEPT !.age = 0, !.public_var = data]
    IN  [pvn |-> [pvn EXCEPT !.nbrList = Append(@, e)],
         cbs |-> <<[cb |-> "new", nbr |-> e]>>]

\* lines 147-198, for the PVN whose channel received `data` from node `id`
on_new_neighbor_information(pvn, id, data) ==
    LET p1 == IF pvn.nbrList = <<>>
              THEN [pvn EXCEPT !.nbrList = <<NewNbr(id, id, Calloc(pvn.nbrList))>>]
              ELSE pvn
    IN  NbrLoop([pvn |-> p1, cbs |-> <<>>], 1, id, data)

Outdated(pvn, nbr) == nbr.age > pvn.maximum_age_of_neighbor_information

OnDelete(r, nbr) ==
    [r EXCEPT !.pvn.neighborhood_size =
                  IF r.pvn.callbacks.onDelete # 0 THEN U16(@ + 65535) ELSE @,
              !.cbs = IF r.pvn.callbacks.onDelete # 0
                      THEN Append(@, [cb |-> "delete", nbr |-> nbr]) ELSE @]

\* lines 311-325: unlink the outdated entries at the head of the list
RECURSIVE SweepHead(_)
SweepHead(r) ==
    IF r.pvn.nbrList # <<>> /\ Outdated(r.pvn, Head(r.pvn.nbrList))
    THEN SweepHead([OnDelete(r, Head(r.pvn.nbrList)) EXCEPT !.pvn.nbrList = Tail(@)])
    ELSE r

\* lines 327-338: for(; nbr!=0 && next!=0; nbr = next), nbr being the i-th
\* entry; after unlinking the entry behind nbr the loop steps to the entry
\* that followed it
RECURSIVE SweepRest(_, _)
SweepRest(r, i) ==
    IF i >= Len(r.pvn.nbrList) THEN r
    ELSE IF Outdated(r.pvn, r.pvn.nbrList[i + 1])
         THEN SweepRest([OnDelete(r, r.pvn.nbrList[i + 1])
                            EXCEPT !.pvn.nbrList = RemoveAt(@, i + 1)], i + 1)
         ELSE SweepRest(r, i + 1)

\* lines 304-340
pvn_remove_old_neighbor_information(pvn) ==
    SweepRest(SweepHead([pvn |-> pvn, cbs |-> <<>>]), 1)

(***************************************************************************)
(* mlst_network.h                                                          *)
(***************************************************************************)
PublicVariable(d, p, c) ==
    [distance_to_root |-> d, parent_id |-> p, children_count |-> c]

\* lines 72-74 and 91: the globals of a node. mlst_parent holds the address
\* (ptr) of a Nbr struct, 0 for the null pointer. branch is a ghost: the branch
\* of mlst_process the node is waiting in. ub is a ghost: a recalculation has
\* dereferenced a null pointer. swept is a ghost: the ids of the entries the
\* sweep of the current round deleted and, if it deleted any, the parent_id and
\* distance the node published before it.
MlstBoot ==
    [mlst_parent |-> 0,
     mlst_stay_active_for_next_n_periods |-> 0,
     divide_period_time_by |-> 1,
     own_mlst_public_variable |-> PublicVariable(0, 0, 0),
     branch |-> "boot", ub |-> FALSE,
     swept |-> [gone |-> {}, parent_id |-> 0, distance_to_root |-> 0]]

StayActive(m) ==
    [m EXCEPT !.mlst_stay_active_for_next_n_periods = IF_CHANGE_STAY_ACTIVE_FOR_N_PERIODS]

\* lines 94-100
onPvnChange(m, n) == StayActive(m)

\* lines 103-109
onPvnNew(m, n) == StayActive(m)

\* faulty variant: the deletion of the parent's entry leaves the state as it is
onPvnDelete_KeepsParent(m, n) == StayActive(m)

\* faulty variant: the deletion of the parent's entry clears the reference
\* and leaves the published tuple
onPvnDelete_KeepsTuple(m, n) ==
    IF n.ptr = m.mlst_parent
    THEN [StayActive(m) EXCEPT !.mlst_parent = 0]
    ELSE StayActive(m)

\* lines 112-124
onPvnDelete(m, n) ==
    IF n.ptr = m.mlst_parent
    THEN [StayActive(m) EXCEPT !.mlst_parent = 0,
                               !.own_mlst_public_variable = PublicVariable(255, 0, 0)]
    ELSE StayActive(m)

\* the callbacks of mlst_pvn_callbacks (line 135), in the order the PVN
\* invoked them
RECURSIVE RunCallbacks(_, _)
RunCallbacks(m, cbs) ==
    IF cbs = <<>> THEN m
    ELSE LET c == Head(cbs)
         IN  RunCallbacks(CASE c.cb = "new" -> onPvnNew(m, c.nbr)
                            [] c.cb = "change" -> onPvnChange(m, c.nbr)
                            [] OTHER -> onPvnDelete(m, c.nbr),
                          Tail(cbs))

\* lines 151-153
mlst_is_undefined(m) ==
    IF m.mlst_parent = 0 \/ m.own_mlst_public_variable.parent_id = 0 THEN 1 ELSE 0

\* lines 168-173
mlst_is_leaf(m) ==
    IF mlst_is_undefined(m) # 0 THEN 0
    ELSE IF m.own_mlst_public_variable.children_count = 0 THEN 1 ELSE 0

\* lines 187-191: the locals of mlst_recalculate before the loop; stay is
\* mlst_stay_active_for_next_n_periods
RecalcStart(m) ==
    [children_count |-> 0, distance_to_root |-> 255,
     number_of_potential_parents |-> 0, best_parent |-> Null,
     stay |-> m.mlst_stay_active_for_next_n_periods, ub |-> FALSE]

\* faulty variant: among equal candidates the one with the highest id is kept
RecalcStep_HighestId(a, n, self) ==
    LET n_pv == n.public_var
        best_parent_pv == a.best_parent.public_var
    IN  IF n_pv = Null THEN [a EXCEPT !.ub = TRUE]
        ELSE IF n_pv.parent_id = 0
        THEN [a EXCEPT !.stay = IF_CHANGE_STAY_ACTIVE_FOR_N_PERIODS,
                       !.children_count = U8(@ + 1)]
        ELSE IF n_pv.parent_id = self
        THEN [a EXCEPT !.children_count = U8(@ + 1)]
        ELSE IF n_pv.distance_to_root + 1 < a.distance_to_root
        THEN [a EXCEPT !.distance_to_root = U8(n_pv.distance_to_root + 1),
                       !.number_of_potential_parents = 1,
                       !.best_parent = n]
        ELSE IF n_pv.distance_to_root + 1 = a.distance_to_root
        THEN IF a.best_parent = Null THEN [a EXCEPT !.ub = TRUE]
             ELSE IF best_parent_pv.children_count < n_pv.children_count
             THEN [a EXCEPT !.number_of_potential_parents = 1, !.best_parent = n]
             ELSE IF best_parent_pv.children_count = n_pv.children_count
             THEN [a EXCEPT !.number_of_potential_parents = U8(@ + 1),
                            !.best_parent = IF a.best_parent.id < n.id THEN n ELSE @]
             ELSE a
        ELSE a

\* lines 196-225: one iteration of the loop, for neighbor entry n
RecalcStep(a, n, self) ==
    LET n_pv == n.public_var
        best_parent_pv == a.best_parent.public_var
    IN  IF n_pv = Null THEN [a EXCEPT !.ub = TRUE]
        ELSE IF n_pv.parent_id = 0
        THEN [a EXCEPT !.stay = IF_CHANGE_STAY_ACTIVE_FOR_N_PERIODS,
                       !.children_count = U8(@ + 1)]
        ELSE IF n_pv.parent_id = self
        THEN [a EXCEPT !.children_count = U8(@ + 1)]
        ELSE IF n_pv.distance_to_root + 1 < a.distance_to_root
        THEN [a EXCEPT !.distance_to_root = U8(n_pv.distance_to_root + 1),
                       !.number_of_potential_parents = 1,
                       !.best_parent = n]
        ELSE IF n_pv.distance_to_root + 1 = a.distance_to_root
        THEN IF a.best_parent = Null THEN [a EXCEPT !.ub = TRUE]
             ELSE IF best_parent_pv.children_count < n_pv.children_count
             THEN [a EXCEPT !.number_of_potential_parents = 1, !.best_parent = n]
             ELSE IF best_parent_pv.children_count = n_pv.children_count
             THEN [a EXCEPT !.number_of_potential_parents = U8(@ + 1),
                            !.best_parent = IF a.best_parent.id > n.id THEN n ELSE @]
             ELSE a
        ELSE a

\* lines 194-227: for(; n!=0; n=pvn_getNextNbr(n))
RECURSIVE RecalcLoop(_, _, _)
RecalcLoop(a, nbrs, self) ==
    IF nbrs = <<>> \/ a.ub THEN a
    ELSE RecalcLoop(RecalcStep(a, Head(nbrs), self), Tail(nbrs), self)

\* faulty variant: no candidate is ever adopted as parent
mlst_recalculate_NoParentAdopted(m, nbrList, self, coin) ==
    IF IsRoot(self)
    THEN [m EXCEPT !.own_mlst_public_variable = PublicVariable(0, 65535, 255)]
    ELSE [m EXCEPT !.own_mlst_public_variable =
                       PublicVariable(255, 0, RecalcLoop(RecalcStart(m), nbrList, self).children_count)]

\* faulty variant: the root counts its children as every other node does
mlst_recalculate_RootCountsChildren(m, nbrList, self, coin) ==
    IF IsRoot(self)
    THEN [m EXCEPT !.own_mlst_public_variable =
             PublicVariable(0, 65535, RecalcLoop(RecalcStart(m), nbrList, self).children_count)]
    ELSE
    LET a == RecalcLoop(RecalcStart(m), nbrList, self)
        own == m.own_mlst_public_variable
        m1 == [m EXCEPT !.mlst_stay_active_for_next_n_periods = a.stay, !.ub = a.ub]
    IN  IF a.ub THEN m1
        ELSE IF a.best_parent # Null
        THEN IF a.number_of_potential_parents > 1 /\ coin
             THEN [m1 EXCEPT !.own_mlst_public_variable =
                                 PublicVariable(255, 0, a.children_count)]
             ELSE LET changed == \/ own.parent_id = 0
                                 \/ own.parent_id # a.best_parent.id
                                 \/ own.distance_to_root # a.distance_to_root
                                 \/ own.children_count # a.children_count
                  IN  [m1 EXCEPT !.mlst_stay_active_for_next_n_periods =
                                     IF changed THEN IF_CHANGE_STAY_ACTIVE_FOR_N_PERIODS ELSE @,
                                 !.divide_period_time_by = IF changed THEN 3 ELSE @,
                                 !.own_mlst_public_variable =
                                     PublicVariable(a.distance_to_root, a.best_parent.id,
                                                    a.children_count),
                                 !.mlst_parent = a.best_parent.ptr]
        ELSE [m1 EXCEPT !.own_mlst_public_variable =
                            PublicVariable(255, 0, a.children_count)]

\* faulty variant: a change sets the stay-active counter but not the divisor
mlst_recalculate_NoShorterPeriod(m, nbrList, self, coin) ==
    IF IsRoot(self)
    THEN [m EXCEPT !.own_mlst_public_variable = PublicVariable(0, 65535, 255)]
    ELSE
    LET a == RecalcLoop(RecalcStart(m), nbrList, self)
        own == m.own_mlst_public_variable
        m1 == [m EXCEPT !.mlst_stay_active_for_next_n_periods = a.stay, !.ub = a.ub]
    IN  IF a.ub THEN m1
        ELSE IF a.best_parent # Null
        THEN IF a.number_of_potential_parents > 1 /\ coin
             THEN [m1 EXCEPT !.own_mlst_public_variable =
                                 PublicVariable(255, 0, a.children_count)]
             ELSE LET changed == \/ own.parent_id = 0
                                 \/ own.parent_id # a.best_parent.id
                                 \/ own.distance_to_root # a.distance_to_root
                                 \/ own.children_count # a.children_count
                  IN  [m1 EXCEPT !.mlst_stay_active_for_next_n_periods =
                                     IF changed THEN IF_CHANGE_STAY_ACTIVE_FOR_N_PERIODS ELSE @,
                                 !.own_mlst_public_variable =
                                     PublicVariable(a.distance_to_root, a.best_parent.id,
                                                    a.children_count),
                                 !.mlst_parent = a.best_parent.ptr]
        ELSE [m1 EXCEPT !.own_mlst_public_variable =
                            PublicVariable(255, 0, a.children_count)]

\* lines 181-265; coin is random_rand() < 0.5*RANDOM_RAND_MAX
mlst_recalculate(m, nbrList, self, coin) ==
    IF IsRoot(self)
    THEN [m EXCEPT !.own_mlst_public_variable = PublicVariable(0, 65535, 255)]
    ELSE
    LET a == RecalcLoop(RecalcStart(m), nbrList, self)
        own == m.own_mlst_public_variable
        m1 == [m EXCEPT !.mlst_stay_active_for_next_n_periods = a.stay, !.ub = a.ub]
    IN  IF a.ub THEN m1
        ELSE IF a.best_parent # Null
        THEN IF a.number_of_potential_parents > 1 /\ coin
             THEN [m1 EXCEPT !.own_mlst_public_variable =
                                 PublicVariable(255, 0, a.children_count)]
             ELSE LET changed == \/ own.parent_id = 0
                                 \/ own.parent_id # a.best_parent.id
                                 \/ own.distance_to_root # a.distance_to_root
                                 \/ own.children_count # a.children_count
                  IN  [m1 EXCEPT !.mlst_stay_active_for_next_n_periods =
                                     IF changed THEN IF_CHANGE_STAY_ACTIVE_FOR_N_PERIODS ELSE @,
                                 !.divide_period_time_by = IF changed THEN 3 ELSE @,
                                 !.own_mlst_public_variable =
                                     PublicVariable(a.distance_to_root, a.best_parent.id,
                                                    a.children_count),
                                 !.mlst_parent = a.best_parent.ptr]
        ELSE [m1 EXCEPT !.own_mlst_public_variable =
                            PublicVariable(255, 0, a.children_count)]

(***************************************************************************)
(* The radio medium and the ghosts                                         *)
(***************************************************************************)
\* Two media. With lossLeft = -1 a packet may be lost or arrive at any time,
\* also after the sender's ACK timeout, and a packet sent into a full medium is
\* lost. With lossLeft >= 0 the medium is timely: it loses at most that many
\* packets, a sender waits for room, and the ACK timeout (0.2 s) expires only
\* when neither the data packet nor its ACK is still on the air.
Timely == lossLeft >= 0
Room(medium, tx) == tx = {} \/ ~Timely \/ Cardinality(medium) < MaxInFlight
Quiet(n) ==
    \A p \in net : ~(p.kind = "data" /\ p.from = n) /\ ~(p.kind = "ack" /\ p.to = n)
LossChoice(tx) == IF lossLeft = 0 \/ tx = {} THEN {FALSE} ELSE BOOLEAN

\* unicast_send: the packets reach the medium unless they are lost on the air
Transmit(medium, tx, lost) ==
    IF lost \/ Cardinality(medium) >= MaxInFlight THEN medium ELSE medium \cup tx
Lose(lost) == IF lost /\ lossLeft > 0 THEN lossLeft - 1 ELSE lossLeft

\* the record of a handler run: op, the node, the packet consumed, the packets
\* sent, failure callbacks invoked, the queue element removed, whether the
\* history reported a duplicate, whether a payload was delivered to the root
\* application (dlv) or forwarded (fwd), and whether that payload had been
\* delivered or forwarded at this node before (again)
Event(op, n) ==
    [op |-> op, node |-> n, pkt |-> NoPkt, tx |-> {}, cb |-> 0, gone |-> NoElem,
     dup |-> FALSE, dlv |-> FALSE, fwd |-> FALSE, again |-> FALSE]

Key(p) == <<p.from, p.seqno, p.msg>>

(***************************************************************************)
(* Actions: one per handler or API call of rsunicast.h                     *)
(***************************************************************************)
\* the application calls mlst_send (mlst_network.h 144-146)
MlstSend(n) ==
    /\ sendsLeft[n] > 0
    /\ rsu' = [rsu EXCEPT ![n] = rsunicast_send(@, <<n, sendsLeft[n]>>)]
    /\ sendsLeft' = [sendsLeft EXCEPT ![n] = @ - 1]
    /\ ev' = Event("send", n)
    /\ UNCHANGED <<net, lossLeft, seen>>
    /\ UNCHANGED mlstVars

\* rsu_timer expires with rsu_send_next_message pending
SendNextMessage(n) ==
    /\ rsu[n].timer = "send"
    /\ LET r == rsu_send_next_message(rsu[n], n)
       IN  /\ Room(net, r.tx)
           /\ rsu' = [rsu EXCEPT ![n] = r.s]
           /\ \E lost \in LossChoice(r.tx) :
                 net' = Transmit(net, r.tx, lost) /\ lossLeft' = Lose(lost)
           /\ ev' = [Event("transmit", n) EXCEPT !.tx = r.tx]
    /\ UNCHANGED <<sendsLeft, seen>>
    /\ UNCHANGED mlstVars

\* rsu_timer expires with rsu_on_ack_timeout pending
AckTimeout(n) ==
    /\ rsu[n].timer = "timeout"
    /\ Timely => Quiet(n)
    /\ LET r == rsu_on_ack_timeout(rsu[n])
       IN  /\ rsu' = [rsu EXCEPT ![n] = r.s]
           /\ ev' = [Event("timeout", n) EXCEPT !.cb = r.cb, !.gone = r.gone]
    /\ UNCHANGED <<net, sendsLeft, lossLeft, seen>>
    /\ UNCHANGED mlstVars

\* a data packet arrives at its receiver; a closed channel hears nothing
ReceiveData(p) ==
    /\ p \in net /\ p.kind = "data"
    /\ LET n == p.to
           r == rsu_on_new_message(rsu[n], n, p)
           fwd == ~IsRoot(n) /\ ~r.dup
           dlv == r.dlv # <<>>
       IN  IF rsu[n].is_online = 0
           THEN /\ net' = net \ {p}
                /\ ev' = [Event("unheard", n) EXCEPT !.pkt = p]
                /\ UNCHANGED <<rsu, lossLeft, seen>>
           ELSE /\ rsu' = [rsu EXCEPT ![n] = r.s]
                /\ \E lost \in LossChoice(r.tx) :
                      net' = Transmit(net \ {p}, r.tx, lost) /\ lossLeft' = Lose(lost)
                /\ seen' = IF fwd \/ dlv
                           THEN [seen EXCEPT ![n] = @ \cup {Key(p)}] ELSE seen
                /\ ev' = [Event("data", n) EXCEPT !.pkt = p, !.tx = r.tx, !.dup = r.dup,
                                                  !.dlv = dlv, !.fwd = fwd,
                                                  !.again = (fwd \/ dlv) /\ Key(p) \in seen[n]]
    /\ UNCHANGED sendsLeft
    /\ UNCHANGED mlstVars

\* an ACK arrives at its receiver
ReceiveAck(p) ==
    /\ p \in net /\ p.kind = "ack"
    /\ net' = net \ {p}
    /\ LET n == p.to
           r == rsu_on_recieve_ack(rsu[n])
       IN  IF rsu[n].is_online = 0
           THEN /\ ev' = [Event("unheard", n) EXCEPT !.pkt = p]
                /\ UNCHANGED rsu
           ELSE /\ rsu' = [rsu EXCEPT ![n] = r.s]
                /\ ev' = [Event("ack", n) EXCEPT !.pkt = p, !.gone = r.gone]
    /\ UNCHANGED <<sendsLeft, lossLeft, seen>>
    /\ UNCHANGED mlstVars

\* mlst_process pushes a parent into RSU (mlst_network.h 324)
SetParent(n, id) ==
    /\ rsu[n].parent # id
    /\ rsu' = [rsu EXCEPT ![n] = rsunicast_setparent(@, id)]
    /\ ev' = Event("setparent", n)
    /\ UNCHANGED <<net, sendsLeft, lossLeft, seen>>
    /\ UNCHANGED mlstVars

AllowSleeping(n) ==
    /\ rsu[n].is_allowed_to_sleep = 0
    /\ rsu' = [rsu EXCEPT ![n] = rsunicast_allowSleeping(@)]
    /\ ev' = Event("allow", n)
    /\ UNCHANGED <<net, sendsLeft, lossLeft, seen>>
    /\ UNCHANGED mlstVars

DisallowSleeping(n) ==
    /\ rsu[n].is_allowed_to_sleep = 1
    /\ rsu' = [rsu EXCEPT ![n] = rsunicast_disallowSleeping(@)]
    /\ ev' = Event("disallow", n)
    /\ UNCHANGED <<net, sendsLeft, lossLeft, seen>>
    /\ UNCHANGED mlstVars

(***************************************************************************)
(* The MLST process (mlst_network.h 281-336) and the clock                 *)
(***************************************************************************)
\* Periods of one node that end within one clock second. WAIT_ONE_PERIOD
\* (line 68) waits at most one second, so at least one period ends per second;
\* the order of the nodes within a second is free.
MaxRoundsPerSecond == 1

\* lines 352-354: pvn_init, pvn_set_comparison_function(pvnCmp), pvn_setCallbacks
PvnStarted == PvnInit(1, [onChange |-> 1, onNew |-> 1, onDelete |-> 1])

\* line 300: clock_seconds()-mlst_parent->timestamp > MAX_AGE_OF_PARENT, read
\* only when the stay-active counter is 0; a dangling mlst_parent reads freed
\* memory, so either outcome is possible
ParentStale(m, nbrList) ==
    LET at == {i \in DOMAIN nbrList : nbrList[i].ptr = m.mlst_parent}
    IN  IF m.mlst_stay_active_for_next_n_periods > 0 THEN {FALSE}
        ELSE IF at = {} THEN BOOLEAN
        ELSE {nbrList[i].age > MAX_AGE_OF_PARENT : i \in at}

\* line 288 as seen by the ghost swept: m is the node before the sweep, cbs
\* the callbacks the sweep invoked
Swept(m, cbs) ==
    LET gone == {cbs[i].nbr.id : i \in {j \in DOMAIN cbs : cbs[j].cb = "delete"}}
    IN  IF gone = {} THEN [gone |-> {}, parent_id |-> 0, distance_to_root |-> 0]
        ELSE [gone |-> gone,
              parent_id |-> m.own_mlst_public_variable.parent_id,
              distance_to_root |-> m.own_mlst_public_variable.distance_to_root]

\* faulty variant: the backbone branch allows RSU sleeping as the leaf branches do
Decide_BackboneSleeps(n, stale) ==
    LET sw == pvn_remove_old_neighbor_information(n.pvn)
        m == [RunCallbacks(n.m, sw.cbs) EXCEPT !.swept = Swept(n.m, sw.cbs)]
    IN  IF mlst_is_undefined(m) # 0
        THEN [m |-> [m EXCEPT !.branch = "undefined"],
              pvn |-> pvn_set_online(sw.pvn),
              rsu |-> rsunicast_disallowSleeping(n.rsu)]
        ELSE IF mlst_is_leaf(m) > 0
        THEN IF m.mlst_stay_active_for_next_n_periods > 0 \/ stale
             THEN [m |-> [m EXCEPT !.branch = "leaf_awake"],
                   pvn |-> pvn_set_online(sw.pvn),
                   rsu |-> rsunicast_allowSleeping(n.rsu)]
             ELSE [m |-> [m EXCEPT !.branch = "leaf_sleep"],
                   pvn |-> pvn_set_offline(sw.pvn),
                   rsu |-> rsunicast_allowSleeping(n.rsu)]
        ELSE [m |-> [m EXCEPT !.branch = "backbone"],
              pvn |-> pvn_set_online(sw.pvn),
              rsu |-> rsunicast_allowSleeping(n.rsu)]

\* faulty variant: a leaf goes offline without looking at the age of its
\* parent's entry
Decide_IgnoresParentAge(n, stale) ==
    LET sw == pvn_remove_old_neighbor_information(n.pvn)
        m == [RunCallbacks(n.m, sw.cbs) EXCEPT !.swept = Swept(n.m, sw.cbs)]
    IN  IF mlst_is_undefined(m) # 0
        THEN [m |-> [m EXCEPT !.branch = "undefined"],
              pvn |-> pvn_set_online(sw.pvn),
              rsu |-> rsunicast_disallowSleeping(n.rsu)]
        ELSE IF mlst_is_leaf(m) > 0
        THEN IF m.mlst_stay_active_for_next_n_periods > 0
             THEN [m |-> [m EXCEPT !.branch = "leaf_awake"],
                   pvn |-> pvn_set_online(sw.pvn),
                   rsu |-> rsunicast_allowSleeping(n.rsu)]
             ELSE [m |-> [m EXCEPT !.branch = "leaf_sleep"],
                   pvn |-> pvn_set_offline(sw.pvn),
                   rsu |-> rsunicast_allowSleeping(n.rsu)]
        ELSE [m |-> [m EXCEPT !.branch = "backbone"],
              pvn |-> pvn_set_online(sw.pvn),
              rsu |-> rsunicast_disallowSleeping(n.rsu)]

\* faulty variant: a leaf goes offline without looking at the stay-active
\* counter or the age of its parent's entry
Decide_LeafSleepsAtOnce(n, stale) ==
    LET sw == pvn_remove_old_neighbor_information(n.pvn)
        m == [RunCallbacks(n.m, sw.cbs) EXCEPT !.swept = Swept(n.m, sw.cbs)]
    IN  IF mlst_is_undefined(m) # 0
        THEN [m |-> [m EXCEPT !.branch = "undefined"],
              pvn |-> pvn_set_online(sw.pvn),
              rsu |-> rsunicast_disallowSleeping(n.rsu)]
        ELSE IF mlst_is_leaf(m) > 0
        THEN [m |-> [m EXCEPT !.branch = "leaf_sleep"],
              pvn |-> pvn_set_offline(sw.pvn),
              rsu |-> rsunicast_allowSleeping(n.rsu)]
        ELSE [m |-> [m EXCEPT !.branch = "backbone"],
              pvn |-> pvn_set_online(sw.pvn),
              rsu |-> rsunicast_disallowSleeping(n.rsu)]

\* lines 288-321: the top of the while loop up to WAIT_ONE_PERIOD. n is the
\* node as [m, pvn, rsu]; the result is the node while it waits.
Decide(n, stale) ==
    LET sw == pvn_remove_old_neighbor_information(n.pvn)
        m == [RunCallbacks(n.m, sw.cbs) EXCEPT !.swept = Swept(n.m, sw.cbs)]
    IN  IF mlst_is_undefined(m) # 0
        THEN [m |-> [m EXCEPT !.branch = "undefined"],
              pvn |-> pvn_set_online(sw.pvn),
              rsu |-> rsunicast_disallowSleeping(n.rsu)]
        ELSE IF mlst_is_leaf(m) > 0
        THEN IF m.mlst_stay_active_for_next_n_periods > 0 \/ stale
             THEN [m |-> [m EXCEPT !.branch = "leaf_awake"],
                   pvn |-> pvn_set_online(sw.pvn),
                   rsu |-> rsunicast_allowSleeping(n.rsu)]
             ELSE [m |-> [m EXCEPT !.branch = "leaf_sleep"],
                   pvn |-> pvn_set_offline(sw.pvn),
                   rsu |-> rsunicast_allowSleeping(n.rsu)]
        ELSE [m |-> [m EXCEPT !.branch = "backbone"],
              pvn |-> pvn_set_online(sw.pvn),
              rsu |-> rsunicast_disallowSleeping(n.rsu)]

\* faulty variant: the stay-active counter is not counted down
EndOfPeriod_KeepsStayActive(m) ==
    [m EXCEPT !.divide_period_time_by = IF @ > 1 THEN @ - 1 ELSE @]

\* lines 326-332: the counters after the broadcast
EndOfPeriod(m) ==
    [m EXCEPT !.mlst_stay_active_for_next_n_periods = IF @ > 0 THEN @ - 1 ELSE @,
              !.divide_period_time_by = IF @ > 1 THEN @ - 1 ELSE @]

\* mlst_init (lines 346-359) and the process up to its first WAIT_ONE_PERIOD
MlstStarted(n, r) ==
    Decide([m |-> MlstBoot, pvn |-> PvnStarted, rsu |-> r], FALSE)

Linked == UNION links
\* faulty variant: a node whose PVN is offline is not heard
Hears_OnlineSender(k, n) ==
    {k, n} \in links /\ k # n /\ mlst_pvn[k].online = 1 /\ mlst_pvn[n].online = 1

\* the broadcast channel of k is open (lines 267-284 open it for the sender)
Hears(k, n) == {k, n} \in links /\ k # n /\ mlst_pvn[k].online = 1

\* The period timer of node n expires: mlst_recalculate, rsunicast_setparent,
\* pvn_broadcast (heard by the neighbors whose PVN is online, whose broadcast
\* callback on_new_neighbor_information runs), the counters, and the next
\* iteration of the loop up to its WAIT_ONE_PERIOD.
LoopIteration(n) ==
    /\ n \in Linked
    /\ rounds[n] < MaxRoundsPerSecond
    /\ ~mlst[n].ub
    /\ \E coin \in BOOLEAN :
         LET m1 == mlst_recalculate(mlst[n], mlst_pvn[n].nbrList, n, coin)
             r1 == rsunicast_setparent(rsu[n], m1.own_mlst_public_variable.parent_id)
             heard == [k \in Nodes |->
                          on_new_neighbor_information(mlst_pvn[k], n, m1.own_mlst_public_variable)]
             me == [m |-> EndOfPeriod(m1), pvn |-> mlst_pvn[n], rsu |-> r1]
         IN  \E stale \in ParentStale(RunCallbacks(me.m,
                              pvn_remove_old_neighbor_information(me.pvn).cbs),
                              pvn_remove_old_neighbor_information(me.pvn).pvn.nbrList) :
                LET w == Decide(me, stale)
                IN  /\ mlst' = [k \in Nodes |->
                                   IF k = n THEN w.m
                                   ELSE IF Hears(k, n) THEN RunCallbacks(mlst[k], heard[k].cbs)
                                   ELSE mlst[k]]
                    /\ mlst_pvn' = [k \in Nodes |->
                                  IF k = n THEN w.pvn
                                  ELSE IF Hears(k, n) THEN heard[k].pvn
                                  ELSE mlst_pvn[k]]
                    /\ rsu' = [rsu EXCEPT ![n] = w.rsu]
    /\ rounds' = [rounds EXCEPT ![n] = @ + 1]
    /\ UNCHANGED <<net, sendsLeft, lossLeft, seen, links, clock>>

Round(n) == LoopIteration(n) /\ UNCHANGED ev

\* the seconds a run that counts them lasts
MaxSeconds == 8

\* clock_seconds() advances by one: every entry is a second older
Older(nbrList) ==
    [i \in DOMAIN nbrList |->
        [nbrList[i] EXCEPT !.age = IF @ < MaxAge THEN @ + 1 ELSE @]]

Tick ==
    /\ Linked # {}
    /\ \A n \in Linked : rounds[n] >= 1
    /\ clock < MaxSeconds
    /\ clock' = IF clock < 0 THEN clock ELSE clock + 1
    /\ mlst_pvn' = [n \in Nodes |-> [mlst_pvn[n] EXCEPT !.nbrList = Older(@)]]
    /\ rounds' = [n \in Nodes |-> 0]
    /\ UNCHANGED <<rsu, net, sendsLeft, lossLeft, seen, ev, mlst, links>>

\* the MLST variables of a scenario in which mlst_process does not run
MlstIdle ==
    /\ mlst_pvn = [n \in Nodes |-> PvnStarted]
    /\ mlst = [n \in Nodes |-> MlstStarted(n, RsuBoot).m]
    /\ links = {}
    /\ rounds = [n \in Nodes |-> 0]
    /\ clock = -1

(***************************************************************************)
(* Retry scenario: node 2 sends to the root 1, its parent comes and goes,  *)
(* sleeping is allowed and disallowed, packets are lost or late.           *)
(***************************************************************************)
\* after mlst_init on every node and rsunicast_setNewMessageCallback_root on
\* the root (mlst_network_example_root.c 39-41)
RsuStarted(n) ==
    IF IsRoot(n)
    THEN rsunicast_setNewMessageCallback_root(rsunicast_init(RsuBoot), 1)
    ELSE rsunicast_init(RsuBoot)

\* the application of node 2 has registered a failure callback or has not
InitRetry ==
    /\ \E cb \in {0, 1} :
          rsu = [n \in Nodes |-> IF n = 2
                                THEN rsunicast_setFailureCallback(RsuStarted(n), cb)
                                ELSE RsuStarted(n)]
    /\ net = {}
    /\ lossLeft = -1
    /\ sendsLeft = [n \in Nodes |-> IF n = 2 THEN MaxSends ELSE 0]
    /\ seen = [n \in Nodes |-> {}]
    /\ ev = Event("init", 0)
    /\ MlstIdle

NextRetry ==
    \/ MlstSend(2)
    \/ SendNextMessage(2)
    \/ AckTimeout(2)
    \/ \E p \in net : ReceiveData(p)
    \/ \E p \in net : ReceiveAck(p)
    \/ \E id \in {0, 1} : SetParent(2, id)
    \/ AllowSleeping(2)
    \/ DisallowSleeping(2)

SpecRetry == InitRetry /\ [][NextRetry]_vars

(***************************************************************************)
(* Forwarding scenario: the tree 3 -> 2 -> 1 and 4 -> 2 is elected, nodes  *)
(* 3 and 4 send, node 2 forwards to the root 1.                            *)
(***************************************************************************)
TreeParent(n) == IF n = 2 THEN 1 ELSE IF n \in {3, 4} THEN 2 ELSE 0

InitFwd ==
    /\ rsu = [n \in Nodes |-> rsunicast_setparent(RsuStarted(n), TreeParent(n))]
    /\ net = {}
    /\ lossLeft = MaxLoss
    /\ sendsLeft = [n \in Nodes |-> IF n = 3 THEN MaxSends ELSE IF n = 4 THEN 1 ELSE 0]
    /\ seen = [n \in Nodes |-> {}]
    /\ ev = Event("init", 0)
    /\ MlstIdle

NextFwd ==
    \/ \E n \in {3, 4} : MlstSend(n)
    \/ \E n \in {2, 3, 4} : SendNextMessage(n)
    \/ \E n \in {2, 3, 4} : AckTimeout(n)
    \/ \E p \in net : ReceiveData(p)
    \/ \E p \in net : ReceiveAck(p)

SpecFwd == InitFwd /\ [][NextFwd]_vars

(***************************************************************************)
(* Sequence-number scenario: the chain 3 -> 2 -> 1 is elected; node 3      *)
(* sends, node 2 sends a message of its own and forwards; the sequence     *)
(* counters of nodes 2 and 3 stand anywhere, also just before the wrap.    *)
(***************************************************************************)
\* the messages the applications of the nodes pass to mlst_send
StampSends(n) == IF n = 3 THEN MaxSends ELSE IF n = 2 THEN 1 ELSE 0

\* rsu_seqno after earlier traffic that has been acknowledged
InitStamp ==
    /\ \E s2 \in {0, 254, 255}, s3 \in {0, 254, 255} :
          rsu = [n \in Nodes |->
                    [rsunicast_setparent(RsuStarted(n), TreeParent(n)) EXCEPT
                        !.seqno = IF n = 2 THEN s2 ELSE IF n = 3 THEN s3 ELSE @]]
    /\ net = {}
    /\ lossLeft = MaxLoss
    /\ sendsLeft = [n \in Nodes |-> StampSends(n)]
    /\ seen = [n \in Nodes |-> {}]
    /\ ev = Event("init", 0)
    /\ MlstIdle

NextStamp ==
    \/ \E n \in {2, 3} : MlstSend(n)
    \/ \E n \in {2, 3} : SendNextMessage(n)
    \/ \E n \in {2, 3} : AckTimeout(n)
    \/ \E p \in net : ReceiveData(p)
    \/ \E p \in net : ReceiveAck(p)

SpecStamp == InitStamp /\ [][NextStamp]_vars

SpecRetryFair ==
    SpecRetry /\ WF_vars(SendNextMessage(2)) /\ WF_vars(AckTimeout(2))

(***************************************************************************)
(* Election scenario: the root 1 and the nodes 2 and 3 boot together in a  *)
(* static connected network; no application traffic.                       *)
(***************************************************************************)
Mesh == {1, 2, 3}
Edges == {{a, b} : a, b \in Mesh} \ {{a} : a \in Mesh}

\* the nodes within k hops of the root over the links L
RECURSIVE Within(_, _)
Within(L, k) ==
    IF k = 0 THEN {n \in Mesh : IsRoot(n)}
    ELSE LET W == Within(L, k - 1)
         IN  W \cup {n \in Mesh : \E w \in W : {n, w} \in L}

Topologies == {L \in SUBSET Edges : Within(L, Cardinality(Mesh)) = Mesh}

InitMlst ==
    /\ links \in Topologies
    /\ rsu = [n \in Nodes |-> MlstStarted(n, RsuStarted(n)).rsu]
    /\ mlst_pvn = [n \in Nodes |-> MlstStarted(n, RsuStarted(n)).pvn]
    /\ mlst = [n \in Nodes |-> MlstStarted(n, RsuStarted(n)).m]
    /\ rounds = [n \in Nodes |-> 0]
    /\ clock = -1
    /\ net = {}
    /\ lossLeft = 0
    /\ sendsLeft = [n \in Nodes |-> 0]
    /\ seen = [n \in Nodes |-> {}]
    /\ ev = Event("init", 0)

NextMlst ==
    \/ \E n \in Mesh : Round(n)
    \/ Tick

\* Round(n) is enabled exactly when RoundEnabled(n) holds, and the steps that
\* count a period of n are its Round(n) steps: this is WF_vars(Round(n))
RoundEnabled(n) == n \in Linked /\ rounds[n] < MaxRoundsPerSecond /\ ~mlst[n].ub
PeriodEnds(n) == rounds'[n] = rounds[n] + 1
RoundFair(n) == []<>(~RoundEnabled(n)) \/ []<><<PeriodEnds(n)>>_vars

\* every period timer expires and the clock runs
SpecMlst ==
    /\ InitMlst /\ [][NextMlst]_vars
    /\ \A n \in Mesh : RoundFair(n)
    /\ WF_vars(Tick)

(***************************************************************************)
(* Churn scenario: the election on the line 1 - 2 - 3, where the root or   *)
(* node 3 may be switched off at any time.                                 *)
(***************************************************************************)
\* node n is switched off: nobody hears it any more and it runs no rounds. A
\* node left without neighbors stays in links on its own and keeps running.
Vanish(n) ==
    /\ n \in Linked
    /\ links' = {e \ {n} : e \in links} \ {{}}
    /\ links' # {}
    /\ UNCHANGED <<rsu, net, sendsLeft, lossLeft, seen, ev, mlst_pvn, mlst, rounds, clock>>

InitChurn ==
    /\ InitMlst
    /\ links = {{1, 2}, {2, 3}}

NextChurn ==
    \/ \E n \in Mesh : Round(n)
    \/ Tick
    \/ \E n \in {1, 3} : Vanish(n)

SpecChurn == InitChurn /\ [][NextChurn]_vars

(***************************************************************************)
(* Ring scenario: the root 1 in range of node 2 only, the nodes 2, 3 and 4 *)
(* in range of one another. The root is switched off after its first       *)
(* broadcast. The period timers of a second expire in the order of the     *)
(* ids, one of the orders their random lengths allow.                      *)
(***************************************************************************)
Ring == {{1, 2}, {2, 3}, {3, 4}, {2, 4}}

InitRing ==
    /\ links = Ring
    /\ rsu = [n \in Nodes |-> MlstStarted(n, RsuStarted(n)).rsu]
    /\ mlst_pvn = [n \in Nodes |-> MlstStarted(n, RsuStarted(n)).pvn]
    /\ mlst = [n \in Nodes |-> MlstStarted(n, RsuStarted(n)).m]
    /\ rounds = [n \in Nodes |-> 0]
    /\ clock = -1
    /\ net = {}
    /\ lossLeft = 0
    /\ sendsLeft = [n \in Nodes |-> 0]
    /\ seen = [n \in Nodes |-> {}]
    /\ ev = Event("init", 0)

\* the timers of the nodes with a smaller id have expired in this second
InTurn(n) == \A k \in Linked : k < n => rounds[k] >= 1

RoundInTurn(n) == InTurn(n) /\ Round(n)

RootOff == rounds[1] = 1 /\ Vanish(1)

NextRing ==
    \/ \E n \in Nodes : RoundInTurn(n)
    \/ Tick
    \/ RootOff

SpecRing == InitRing /\ [][NextRing]_vars

(***************************************************************************)
(* Leaf scenario: the election on the line 1 - 2 - 3, in which node 3      *)
(* becomes a leaf and node 2 becomes one when node 3 is switched off. ev   *)
(* records, for every node, the last thing that asked it to stay active    *)
(* and the round decisions it has taken since.                             *)
(***************************************************************************)
\* the largest number of decisions counted
MaxCount == 4

NothingYet == [count |-> MaxCount, kind |-> "none"]

InitLeaf ==
    /\ links = {{1, 2}, {2, 3}}
    /\ rsu = [n \in Nodes |-> MlstStarted(n, RsuStarted(n)).rsu]
    /\ mlst_pvn = [n \in Nodes |-> MlstStarted(n, RsuStarted(n)).pvn]
    /\ mlst = [n \in Nodes |-> MlstStarted(n, RsuStarted(n)).m]
    /\ rounds = [n \in Nodes |-> 0]
    /\ clock = -1
    /\ net = {}
    /\ lossLeft = 0
    /\ sendsLeft = [n \in Nodes |-> 0]
    /\ seen = [n \in Nodes |-> {}]
    /\ ev = [op |-> "watch", node |-> 0, since |-> [n \in Mesh |-> NothingYet],
             awake |-> [n \in Mesh |-> 0], online |-> 1]

\* the broadcast of node n in this step invoked onPvnNew or onPvnChange at
\* node k
FiredAt(k, n) ==
    /\ Hears(k, n)
    /\ \E i \in DOMAIN mlst_pvn'[k].nbrList :
          /\ mlst_pvn'[k].nbrList[i].id = n
          /\ on_new_neighbor_information(mlst_pvn[k], n,
                                         mlst_pvn'[k].nbrList[i].public_var).cbs # <<>>

\* line 303: the entry the parent reference of node n points to is at most
\* MAX_AGE_OF_PARENT seconds old
FreshParent(n) ==
    \E i \in DOMAIN mlst_pvn[n].nbrList :
        /\ mlst_pvn[n].nbrList[i].ptr = mlst[n].mlst_parent
        /\ mlst_pvn[n].nbrList[i].age <= MAX_AGE_OF_PARENT

\* one iteration of the loop of node n, watched: the sweep of n deleted an
\* entry (onPvnDelete), or else the recalculation of n changed the published
\* tuple, or else n has taken one more decision since; the broadcast of n
\* invoked a callback at a neighbor, which has taken no decision since. awake
\* counts the decisions in a row in which n was a leaf with a fresh parent
\* and left its PVN online. online is the setting of the PVN of n during the
\* period wait that ended, the one pvn_broadcast found.
WatchedRound(n) ==
    /\ LoopIteration(n)
    /\ ev' = [op |-> "watch", node |-> n,
              since |-> [k \in Mesh |->
                  IF k = n
                  THEN IF mlst'[n].swept.gone # {} THEN [count |-> 1, kind |-> "swept"]
                       ELSE IF mlst'[n].own_mlst_public_variable
                                   # mlst[n].own_mlst_public_variable
                       THEN [count |-> 1, kind |-> "recalc"]
                       ELSE [ev.since[n] EXCEPT !.count = IF @ < MaxCount THEN @ + 1 ELSE @]
                  ELSE IF FiredAt(k, n) THEN [count |-> 0, kind |-> "heard"]
                  ELSE ev.since[k]],
              awake |-> [k \in Mesh |->
                  IF k # n THEN ev.awake[k]
                  ELSE IF mlst'[n].branch = "leaf_awake" /\ FreshParent(n)'
                  THEN IF ev.awake[n] < MaxCount THEN ev.awake[n] + 1 ELSE ev.awake[n]
                  ELSE 0],
              online |-> mlst_pvn[n].online]

NextLeaf ==
    \/ \E n \in Mesh : WatchedRound(n)
    \/ Tick
    \/ Vanish(3)

SpecLeaf == InitLeaf /\ [][NextLeaf]_vars

\* every period timer expires and the clock runs
SpecLeafFair ==
    /\ SpecLeaf
    /\ \A n \in Mesh : RoundFair(n)
    /\ WF_vars(Tick)

(***************************************************************************)
(* Orphan scenario: the election between the root 1 and node 2 while the   *)
(* application of node 2 sends one message; the root may be switched off.  *)
(***************************************************************************)
InitOrphan ==
    /\ links = {{1, 2}}
    /\ rsu = [n \in Nodes |-> MlstStarted(n, RsuStarted(n)).rsu]
    /\ mlst_pvn = [n \in Nodes |-> MlstStarted(n, RsuStarted(n)).pvn]
    /\ mlst = [n \in Nodes |-> MlstStarted(n, RsuStarted(n)).m]
    /\ rounds = [n \in Nodes |-> 0]
    /\ clock = -1
    /\ net = {}
    /\ lossLeft = -1
    /\ sendsLeft = [n \in Nodes |-> IF n = 2 THEN 1 ELSE 0]
    /\ seen = [n \in Nodes |-> {}]
    /\ ev = Event("init", 0)

\* a packet for a node that is switched off is heard by nobody
Fade(p) ==
    /\ p \in net /\ p.to \notin Linked
    /\ net' = net \ {p}
    /\ ev' = [Event("unheard", p.to) EXCEPT !.pkt = p]
    /\ UNCHANGED <<rsu, sendsLeft, lossLeft, seen>>
    /\ UNCHANGED mlstVars

NextOrphan ==
    \/ \E n \in {1, 2} : Round(n)
    \/ Tick
    \/ Vanish(1)
    \/ MlstSend(2)
    \/ SendNextMessage(2)
    \/ AckTimeout(2)
    \/ \E p \in net : p.to \in Linked /\ ReceiveData(p)
    \/ \E p \in net : p.to \in Linked /\ ReceiveAck(p)
    \/ \E p \in net : Fade(p)

SpecOrphan == InitOrphan /\ [][NextOrphan]_vars

(***************************************************************************)
(* History scenario: node 2 records the data packets it accepts from the   *)
(* senders 3, 4 and 5 (rsu_on_new_message calls rsu_add_history for each). *)
(***************************************************************************)
Sources == {3, 4, 5}
Seqnos == {0, 1}

InitHistory ==
    /\ rsu = [n \in Nodes |-> RsuStarted(n)]
    /\ net = {}
    /\ lossLeft = 0
    /\ sendsLeft = [n \in Nodes |-> 0]
    /\ seen = [n \in Nodes |-> {}]
    /\ ev = Event("init", 0)
    /\ MlstIdle

AddHistory(n, from, seqno) ==
    /\ rsu' = [rsu EXCEPT ![n].history = rsu_add_history(@, from, seqno)]
    /\ ev' = [op |-> "add", node |-> n, from |-> from, seqno |-> seqno,
              before |-> rsu[n].history]
    /\ UNCHANGED <<net, sendsLeft, lossLeft, seen>>
    /\ UNCHANGED mlstVars

NextHistory == \E from \in Sources, seqno \in Seqnos : AddHistory(2, from, seqno)

SpecHistory == InitHistory /\ [][NextHistory]_vars

(***************************************************************************)
(* Sweep scenario: node 2 runs pvn_remove_old_neighbor_information once on *)
(* a list with fresh and outdated entries at any positions.                *)
(***************************************************************************)
\* entries of the PVN list in the sweep scenario
MaxEntries == 4

\* the lists of node 2: entry i is the one of neighbor i, heard this second,
\* max_age seconds ago or longer ago than that
AgedLists ==
    LET Ages == {0, MAX_AGE_OF_MLST_NBR_IN_SECONDS, MaxAge}
        Lists(k) == {[i \in 1..k |-> [id |-> i, addr |-> i, ptr |-> i, age |-> f[i],
                                      public_var |-> PublicVariable(1, 9, 0)]] :
                        f \in [1..k -> Ages]}
    IN  UNION {Lists(k) : k \in 0..MaxEntries}

InitSweep ==
    /\ rsu = [n \in Nodes |-> RsuStarted(n)]
    /\ net = {}
    /\ lossLeft = 0
    /\ sendsLeft = [n \in Nodes |-> 0]
    /\ seen = [n \in Nodes |-> {}]
    /\ ev = Event("init", 0)
    /\ \E l \in AgedLists :
          mlst_pvn = [n \in Nodes |->
                         IF n = 2 THEN [PvnStarted EXCEPT !.nbrList = l,
                                                          !.neighborhood_size = Len(l)]
                         ELSE PvnStarted]
    /\ mlst = [n \in Nodes |-> MlstStarted(n, RsuBoot).m]
    /\ links = {}
    /\ rounds = [n \in Nodes |-> 0]
    /\ clock = -1

\* mlst_process line 288: one call of pvn_remove_old_neighbor_information;
\* the record of the run keeps the list before it and the callbacks invoked
Sweep(n) ==
    /\ ev.op = "init"
    /\ LET sw == pvn_remove_old_neighbor_information(mlst_pvn[n])
       IN  /\ mlst_pvn' = [mlst_pvn EXCEPT ![n] = sw.pvn]
           /\ mlst' = [mlst EXCEPT ![n] = RunCallbacks(@, sw.cbs)]
           /\ ev' = [op |-> "sweep", node |-> n, before |-> mlst_pvn[n].nbrList,
                     cbs |-> sw.cbs]
    /\ UNCHANGED <<rsu, net, sendsLeft, lossLeft, seen, links, rounds, clock>>

NextSweep == Sweep(2)

SpecSweep == InitSweep /\ [][NextSweep]_vars

(***************************************************************************)
(* Neighborhood scenario: the PVN of node 2 hears broadcasts of nodes 1    *)
(* and 3 with any payloads at any times and is swept at any time; the      *)
(* comparison function is installed or not.                                *)
(***************************************************************************)
Senders == {1, 3}

\* payloads that differ in the distance only, or in the children count
Payloads == {PublicVariable(1, 9, 0), PublicVariable(2, 9, 0), PublicVariable(1, 9, 1)}

\* ghost: nothing heard from a sender yet
Unheard == [data |-> Null, age |-> MaxAge]

\* ev is the record of the last handler run and carries the ghost heard: the
\* payload of the last broadcast received from each sender and its age
InitPvn ==
    /\ rsu = [n \in Nodes |-> RsuStarted(n)]
    /\ net = {}
    /\ lossLeft = 0
    /\ sendsLeft = [n \in Nodes |-> 0]
    /\ seen = [n \in Nodes |-> {}]
    /\ ev = [op |-> "init", node |-> 0, id |-> 0, data |-> Null, had |-> FALSE,
             stored |-> Null, cbs |-> <<>>, heard |-> [id \in Senders |-> Unheard]]
    /\ \E cmp \in {0, 1} :
          mlst_pvn = [n \in Nodes |->
                         IF n = 2 THEN PvnInit(cmp, [onChange |-> 1, onNew |-> 1, onDelete |-> 1])
                         ELSE PvnStarted]
    /\ mlst = [n \in Nodes |-> MlstStarted(n, RsuBoot).m]
    /\ links = {}
    /\ rounds = [n \in Nodes |-> 0]
    /\ clock = -1

\* the broadcast channel of node n's PVN receives `data` from node `id`
PvnReceive(n, id, data) ==
    /\ mlst_pvn[n].online = 1
    /\ LET r == on_new_neighbor_information(mlst_pvn[n], id, data)
           at == {i \in DOMAIN mlst_pvn[n].nbrList : mlst_pvn[n].nbrList[i].id = id}
       IN  /\ mlst_pvn' = [mlst_pvn EXCEPT ![n] = r.pvn]
           /\ mlst' = [mlst EXCEPT ![n] = RunCallbacks(@, r.cbs)]
           /\ ev' = [op |-> "receive", node |-> n, id |-> id, data |-> data,
                     had |-> at # {},
                     stored |-> IF at = {} THEN Null
                                ELSE mlst_pvn[n].nbrList[CHOOSE i \in at : TRUE].public_var,
                     cbs |-> r.cbs,
                     heard |-> [ev.heard EXCEPT ![id] = [data |-> data, age |-> 0]]]
    /\ UNCHANGED <<rsu, net, sendsLeft, lossLeft, seen, links, rounds, clock>>

\* clock_seconds() advances by one
PvnTick ==
    /\ mlst_pvn' = [n \in Nodes |-> [mlst_pvn[n] EXCEPT !.nbrList = Older(@)]]
    /\ ev' = [ev EXCEPT !.op = "tick", !.cbs = <<>>,
                        !.heard = [id \in Senders |->
                                      [ev.heard[id] EXCEPT !.age = IF @ < MaxAge THEN @ + 1 ELSE @]]]
    /\ UNCHANGED <<rsu, net, sendsLeft, lossLeft, seen, mlst, links, rounds, clock>>

\* mlst_process line 288
PvnSweep(n) ==
    /\ LET sw == pvn_remove_old_neighbor_information(mlst_pvn[n])
       IN  /\ mlst_pvn' = [mlst_pvn EXCEPT ![n] = sw.pvn]
           /\ mlst' = [mlst EXCEPT ![n] = RunCallbacks(@, sw.cbs)]
           /\ ev' = [ev EXCEPT !.op = "sweep", !.node = n, !.cbs = sw.cbs]
    /\ UNCHANGED <<rsu, net, sendsLeft, lossLeft, seen, links, rounds, clock>>

NextPvn ==
    \/ \E id \in Senders, data \in Payloads : PvnReceive(2, id, data)
    \/ PvnTick
    \/ PvnSweep(2)

SpecPvn == InitPvn /\ [][NextPvn]_vars

\* the same scenario for a PVN whose user installed the onNew and onDelete
\* callbacks or left them out (pvn_setCallbacks takes null pointers for both)
InitPvnAnyCallbacks ==
    /\ rsu = [n \in Nodes |-> RsuStarted(n)]
    /\ net = {}
    /\ lossLeft = 0
    /\ sendsLeft = [n \in Nodes |-> 0]
    /\ seen = [n \in Nodes |-> {}]
    /\ ev = [op |-> "init", node |-> 0, id |-> 0, data |-> Null, had |-> FALSE,
             stored |-> Null, cbs |-> <<>>, heard |-> [id \in Senders |-> Unheard]]
    /\ \E onNew \in {0, 1}, onDelete \in {0, 1} :
          mlst_pvn = [n \in Nodes |->
                         IF n = 2
                         THEN PvnInit(1, [onChange |-> 1, onNew |-> onNew, onDelete |-> onDelete])
                         ELSE PvnStarted]
    /\ mlst = [n \in Nodes |-> MlstStarted(n, RsuBoot).m]
    /\ links = {}
    /\ rounds = [n \in Nodes |-> 0]
    /\ clock = -1

\* how far pvn_neighborhood_size of node n is from the length of its list,
\* modulo 2^16
Drift(n) == U16(mlst_pvn[n].neighborhood_size + 65536 - Len(mlst_pvn[n].nbrList))

\* the scenario is followed while the counter is at most this far off
MaxDrift == 2

Followed == Drift(2) <= MaxDrift \/ Drift(2) >= 65536 - MaxDrift

ReceiveFollowed(n, id) == Followed /\ PvnReceive(n, id, PublicVariable(1, 9, 0))
TickFollowed == Followed /\ PvnTick
SweepFollowed(n) == Followed /\ PvnSweep(n)

NextPvnAnyCallbacks ==
    \/ \E id \in Senders : ReceiveFollowed(2, id)
    \/ TickFollowed
    \/ SweepFollowed(2)

SpecPvnAnyCallbacks == InitPvnAnyCallbacks /\ [][NextPvnAnyCallbacks]_vars

(***************************************************************************)
(* Allocation scenario: node 2 queues messages and hears broadcasts of     *)
(* nodes 1 and 3 while calloc may return the null pointer.                 *)
(***************************************************************************)
\* CHECK_ALLOCATION (rsunicast.h 41, public_variable_neighborhood.h 40) prints
\* and returns; the statements after it write through the pointer. What a
\* write through the null pointer does depends on the platform: the node
\* stops, or the write lands at address 0 and execution goes on.
NullWrite == {"trap", "stray"}

\* rsunicast.h 257-283 when execution goes on; elem and buf tell whether the
\* calloc of the queue element (258) and of the envelope (261) succeeded. A
\* null queue_element is what lines 275 and 281 store; an element whose msg is
\* null holds no envelope.
rsunicast_send_Calloc(s, msg, elem, buf) ==
    IF elem /\ buf THEN rsunicast_send(s, msg)
    ELSE [s EXCEPT !.is_online = 1,
                   !.queue = IF elem
                             THEN Append(@, [Elem(s.seqno, msg) EXCEPT !.seqno = -1,
                                                                       !.msg = Null])
                             ELSE @,
                   !.seqno = IF s.seqno = 255 THEN 0 ELSE s.seqno + 1,
                   !.timer = IF s.queue = <<>> THEN "send" ELSE @,
                   !.messages_in_queue = U16(@ + 1)]

\* the entry of the list for neighbor id, 0 if there is none
EntryOf(nbrList, id) ==
    IF \E i \in DOMAIN nbrList : nbrList[i].id = id
    THEN CHOOSE i \in DOMAIN nbrList : nbrList[i].id = id
    ELSE 0

\* the receive of a broadcast from id asks for a struct Nbr (lines 156, 188)
NeedsEntry(pvn, id) == EntryOf(pvn.nbrList, id) = 0

\* the receive asks for a variable buffer (line 167), once it has the entry
NeedsVariable(pvn, id) ==
    \/ NeedsEntry(pvn, id)
    \/ pvn.nbrList[EntryOf(pvn.nbrList, id)].public_var = Null

\* public_variable_neighborhood.h 147-198 when execution goes on; entry and
\* var tell whether the calloc of the struct Nbr and of the variable buffer
\* succeeded. Without the struct the loop ends at the null nextNbr (an empty
\* list is not entered at all); line 191 has then already copied the sender's
\* address into the last entry. Without the buffer the entry keeps a null
\* public_var, and lines 170-173 run as for a stored variable.
on_new_neighbor_information_Calloc(pvn, id, data, entry, var) ==
    IF NeedsEntry(pvn, id) /\ ~entry
    THEN [pvn |-> IF pvn.nbrList = <<>> THEN pvn
                  ELSE [pvn EXCEPT !.nbrList[Len(pvn.nbrList)].addr = id],
          cbs |-> <<>>]
    ELSE LET r == on_new_neighbor_information(pvn, id, data)
             i == EntryOf(r.pvn.nbrList, id)
         IN  IF NeedsVariable(pvn, id) /\ ~var
             THEN [r EXCEPT !.pvn.nbrList[i].public_var = Null]
             ELSE r

\* ev is the record of the last call: whether an allocation of it failed,
\* whether the node stopped in it, and the RSU and PVN state before it
InitAlloc ==
    /\ rsu = [n \in Nodes |-> rsunicast_setparent(RsuStarted(n), TreeParent(n))]
    /\ net = {}
    /\ lossLeft = 0
    /\ sendsLeft = [n \in Nodes |-> IF n = 2 THEN MaxSends ELSE 0]
    /\ seen = [n \in Nodes |-> {}]
    /\ ev = [op |-> "init", node |-> 0, failed |-> FALSE, halted |-> FALSE,
             rsuWas |-> RsuBoot, pvnWas |-> PvnStarted]
    /\ MlstIdle

\* the application of node n calls mlst_send
SendCalloc(n) ==
    /\ ~ev.halted
    /\ sendsLeft[n] > 0
    /\ \E elem \in BOOLEAN, buf \in BOOLEAN, w \in NullWrite :
          LET failed == ~(elem /\ buf)
              halted == failed /\ w = "trap"
          IN  /\ rsu' = IF halted THEN rsu
                        ELSE [rsu EXCEPT ![n] =
                                 rsunicast_send_Calloc(@, <<n, sendsLeft[n]>>, elem, buf)]
              /\ ev' = [op |-> "send", node |-> n, failed |-> failed, halted |-> halted,
                        rsuWas |-> rsu[n], pvnWas |-> mlst_pvn[n]]
    /\ sendsLeft' = [sendsLeft EXCEPT ![n] = @ - 1]
    /\ UNCHANGED <<net, lossLeft, seen>>
    /\ UNCHANGED mlstVars

\* the broadcast channel of node n's PVN receives `data` from node `id`
ReceiveCalloc(n, id, data) ==
    /\ ~ev.halted
    /\ Drift(n) <= MaxDrift
    /\ \E entry \in BOOLEAN, var \in BOOLEAN, w \in NullWrite :
          LET failed == \/ NeedsEntry(mlst_pvn[n], id) /\ ~entry
                        \/ ~(NeedsEntry(mlst_pvn[n], id) /\ ~entry)
                              /\ NeedsVariable(mlst_pvn[n], id) /\ ~var
              halted == failed /\ w = "trap"
              r == on_new_neighbor_information_Calloc(mlst_pvn[n], id, data, entry, var)
          IN  /\ mlst_pvn' = IF halted THEN mlst_pvn ELSE [mlst_pvn EXCEPT ![n] = r.pvn]
              /\ mlst' = IF halted THEN mlst ELSE [mlst EXCEPT ![n] = RunCallbacks(@, r.cbs)]
              /\ ev' = [op |-> "receive", node |-> n, failed |-> failed, halted |-> halted,
                        rsuWas |-> rsu[n], pvnWas |-> mlst_pvn[n]]
    /\ UNCHANGED <<rsu, net, sendsLeft, lossLeft, seen, links, rounds, clock>>

NextAlloc ==
    \/ SendCalloc(2)
    \/ \E id \in Senders : ReceiveCalloc(2, id, PublicVariable(1, 9, 0))

SpecAlloc == InitAlloc /\ [][NextAlloc]_vars

(***************************************************************************)
(* Tie-break scenario: the root 1 is in range of nodes 2 and 3, node 4 is  *)
(* in range of nodes 2 and 3; the first MaxSeconds seconds after the boot. *)
(***************************************************************************)
Diamond == {{1, 2}, {1, 3}, {2, 4}, {3, 4}}

InitTie ==
    /\ links = Diamond
    /\ rsu = [n \in Nodes |-> MlstStarted(n, RsuStarted(n)).rsu]
    /\ mlst_pvn = [n \in Nodes |-> MlstStarted(n, RsuStarted(n)).pvn]
    /\ mlst = [n \in Nodes |-> MlstStarted(n, RsuStarted(n)).m]
    /\ rounds = [n \in Nodes |-> 0]
    /\ clock = 0
    /\ net = {}
    /\ lossLeft = 0
    /\ sendsLeft = [n \in Nodes |-> 0]
    /\ seen = [n \in Nodes |-> {}]
    /\ ev = Event("init", 0)

NextTie ==
    \/ \E n \in Nodes : Round(n)
    \/ Tick

SpecTie == InitTie /\ [][NextTie]_vars

(***************************************************************************)
(* Recalculation scenario: node 2 runs mlst_recalculate once on a          *)
(* neighbor list of any content and order.                                 *)
(***************************************************************************)
\* entries of the PVN list in the recalculation scenario
MaxNbrs == 3

\* The variables neighbors publish: the root's, an undefined node's, a child
\* of node 2, and nodes with a parent other than node 2 at distances 1, 2 and
\* 254 (the largest distance mlst_recalculate stores) with 0 or 1 children.
PublishedValues ==
    {PublicVariable(0, 65535, 255), PublicVariable(255, 0, 0), PublicVariable(2, 2, 0)}
        \cup {PublicVariable(d, 9, c) : d \in {1, 2, 254}, c \in {0, 1}}

\* the neighbor lists of node 2: entries of distinct neighbors in any order
NbrLists ==
    LET Ids == {1, 3, 4}
        Entry(i, id, pv) == [id |-> id, addr |-> id, public_var |-> pv, age |-> 0, ptr |-> i]
        Lists(k) == {[i \in 1..k |-> Entry(i, f[i][1], f[i][2])] :
                        f \in {g \in [1..k -> Ids \X PublishedValues] :
                                 \A i, j \in 1..k : i # j => g[i][1] # g[j][1]}}
    IN  UNION {Lists(k) : k \in 0..MaxNbrs}

\* what node 2 was before the run, given its list l: just booted, undefined,
\* or committed to a neighbor of the list at distance 2; with the counters
\* run down or still running
Befores(l) ==
    LET Variables ==
            {[own |-> PublicVariable(0, 0, 0), parent |-> 0],
             [own |-> PublicVariable(255, 0, 0), parent |-> 0],
             [own |-> PublicVariable(255, 0, 1), parent |-> 0]}
            \cup {[own |-> PublicVariable(2, l[i].id, c), parent |-> l[i].ptr] :
                     i \in DOMAIN l, c \in {0, 1}}
    IN  {[MlstStarted(2, RsuBoot).m EXCEPT
              !.own_mlst_public_variable = v.own,
              !.mlst_parent = v.parent,
              !.mlst_stay_active_for_next_n_periods = k[1],
              !.divide_period_time_by = k[2]] :
            v \in Variables, k \in {<<0, 1>>, <<2, 2>>}}

InitRecalc ==
    /\ rsu = [n \in Nodes |-> RsuStarted(n)]
    /\ net = {}
    /\ lossLeft = 0
    /\ sendsLeft = [n \in Nodes |-> 0]
    /\ seen = [n \in Nodes |-> {}]
    /\ ev = Event("init", 0)
    /\ \E l \in NbrLists :
          /\ mlst_pvn = [n \in Nodes |-> IF n = 2 THEN [PvnStarted EXCEPT !.nbrList = l]
                                         ELSE PvnStarted]
          /\ \E b \in Befores(l) :
                mlst = [n \in Nodes |-> IF n = 2 THEN b ELSE MlstStarted(n, RsuBoot).m]
    /\ links = {}
    /\ rounds = [n \in Nodes |-> 0]
    /\ clock = -1

\* mlst_process line 293 / 303 / 308 / 314: one call of mlst_recalculate; the
\* record of the run keeps the list and the locals after the loop
Recalculate(n) ==
    /\ ev.op = "init"
    /\ \E coin \in BOOLEAN :
          mlst' = [mlst EXCEPT ![n] = mlst_recalculate(@, mlst_pvn[n].nbrList, n, coin)]
    /\ ev' = [op |-> "recalc", node |-> n, nbrs |-> mlst_pvn[n].nbrList,
              was |-> mlst[n],
              a |-> RecalcLoop(RecalcStart(mlst[n]), mlst_pvn[n].nbrList, n)]
    /\ UNCHANGED <<rsu, net, sendsLeft, lossLeft, seen, mlst_pvn, links, rounds, clock>>

NextRecalc == Recalculate(2)

SpecRecalc == InitRecalc /\ [][NextRecalc]_vars

(***************************************************************************)
(* mlst_network-ea2.h: the energy-aware variant of the recalculation       *)
(***************************************************************************)
\* lines 65-72: struct mlst_public_variable of the energy-aware variant
EaPublicVariable(h, m, l, p, c, e) ==
    [distance_to_root_high |-> h, distance_to_root_middle |-> m,
     distance_to_root_low |-> l, parent_id |-> p, children_count |-> c,
     energy_state |-> e]

\* lines 185-192: the locals of mlst_recalculate before the loop
EaRecalcStart(m) ==
    [children_count |-> 0, distance_to_root_high |-> 255,
     distance_to_root_middle |-> 255, distance_to_root_low |-> 255,
     number_of_potential_parents |-> 0, best_parent |-> Null,
     stay |-> m.mlst_stay_active_for_next_n_periods, ub |-> FALSE]

\* lines 207-209: the neighbor equals the best distance of the tier in use
EaSameDistance(a, n_pv) ==
    \/ /\ n_pv.energy_state = 1
       /\ n_pv.distance_to_root_high # 255
       /\ n_pv.distance_to_root_high + 1 = a.distance_to_root_high
    \/ /\ a.distance_to_root_high = 255
       /\ n_pv.energy_state # 3
       /\ n_pv.distance_to_root_middle # 255
       /\ n_pv.distance_to_root_middle + 1 = a.distance_to_root_middle
    \/ /\ a.distance_to_root_high = 255
       /\ a.distance_to_root_middle = 255
       /\ n_pv.distance_to_root_low # 255
       /\ n_pv.distance_to_root_low + 1 = a.distance_to_root_low

\* lines 207-222: the comparison with the best parent so far, which is read
\* through best_parent_pv whether or not a best parent exists
EaTieStep(a, n) ==
    LET n_pv == n.public_var
        best_parent_pv == a.best_parent.public_var
    IN  IF ~EaSameDistance(a, n_pv) THEN a
        ELSE IF a.best_parent = Null THEN [a EXCEPT !.ub = TRUE]
        ELSE IF best_parent_pv.children_count < n_pv.children_count
        THEN [a EXCEPT !.number_of_potential_parents = 1, !.best_parent = n]
        ELSE IF best_parent_pv.children_count = n_pv.children_count
        THEN [a EXCEPT !.number_of_potential_parents = U8(@ + 1),
                       !.best_parent = IF a.best_parent.id > n.id THEN n ELSE @]
        ELSE a

\* faulty variant: the middle tier admits neighbors of every energy state
EaMiddleStep_AnyEnergy(a, n) ==
    LET n_pv == n.public_var
    IN  IF /\ n_pv.distance_to_root_middle # 255
           /\ n_pv.distance_to_root_middle + 1 < a.distance_to_root_middle
        THEN IF a.distance_to_root_high = 255
             THEN [a EXCEPT !.distance_to_root_middle = n_pv.distance_to_root_middle + 1,
                            !.number_of_potential_parents = 1,
                            !.best_parent = n]
             ELSE [a EXCEPT !.distance_to_root_middle = n_pv.distance_to_root_middle + 1]
        ELSE a

\* lines 223-229
EaHighStep(a, n) ==
    LET n_pv == n.public_var
    IN  IF /\ n_pv.energy_state = 1
           /\ n_pv.distance_to_root_high # 255
           /\ n_pv.distance_to_root_high + 1 < a.distance_to_root_high
        THEN [a EXCEPT !.distance_to_root_high = n_pv.distance_to_root_high + 1,
                       !.number_of_potential_parents = 1,
                       !.best_parent = n]
        ELSE a

\* lines 230-238
EaMiddleStep(a, n) ==
    LET n_pv == n.public_var
    IN  IF /\ n_pv.energy_state # 3
           /\ n_pv.distance_to_root_middle # 255
           /\ n_pv.distance_to_root_middle + 1 < a.distance_to_root_middle
        THEN IF a.distance_to_root_high = 255
             THEN [a EXCEPT !.distance_to_root_middle = n_pv.distance_to_root_middle + 1,
                            !.number_of_potential_parents = 1,
                            !.best_parent = n]
             ELSE [a EXCEPT !.distance_to_root_middle = n_pv.distance_to_root_middle + 1]
        ELSE a

\* lines 239-247
EaLowStep(a, n) ==
    LET n_pv == n.public_var
    IN  IF /\ n_pv.distance_to_root_low # 255
           /\ n_pv.distance_to_root_low + 1 < a.distance_to_root_low
        THEN IF a.distance_to_root_high = 255 /\ a.distance_to_root_middle = 255
             THEN [a EXCEPT !.distance_to_root_low = n_pv.distance_to_root_low + 1,
                            !.number_of_potential_parents = 1,
                            !.best_parent = n]
             ELSE [a EXCEPT !.distance_to_root_low = n_pv.distance_to_root_low + 1]
        ELSE a

\* lines 197-249: one iteration of the loop, for neighbor entry n
EaRecalcStep(a, n, self) ==
    LET n_pv == n.public_var
    IN  IF n_pv = Null THEN [a EXCEPT !.ub = TRUE]
        ELSE IF n_pv.parent_id = 0
        THEN [a EXCEPT !.stay = IF_CHANGE_STAY_ACTIVE_FOR_N_PERIODS,
                       !.children_count = U8(@ + 1)]
        ELSE IF n_pv.parent_id = self \/ n_pv.energy_state = 0
        THEN [a EXCEPT !.children_count = U8(@ + 1)]
        ELSE LET a1 == EaTieStep(a, n)
             IN  IF a1.ub THEN a1
                 ELSE EaLowStep(EaMiddleStep(EaHighStep(a1, n), n), n)

\* lines 196-250: for(; n!=0; n=pvn_getNextNbr(n))
RECURSIVE EaRecalcLoop(_, _, _)
EaRecalcLoop(a, nbrs, self) ==
    IF nbrs = <<>> \/ a.ub THEN a
    ELSE EaRecalcLoop(EaRecalcStep(a, Head(nbrs), self), Tail(nbrs), self)

\* lines 177-296 of the energy-aware variant; coin is
\* random_rand() < 0.5*RANDOM_RAND_MAX
eamlst_recalculate(m, nbrList, self, coin) ==
    LET own == m.own_mlst_public_variable
        Undef(c) == [own EXCEPT !.parent_id = 0,
                                !.distance_to_root_high = 255,
                                !.distance_to_root_middle = 255,
                                !.distance_to_root_low = 255,
                                !.children_count = c]
    IN
    IF IsRoot(self)
    THEN [m EXCEPT !.own_mlst_public_variable =
                       [own EXCEPT !.distance_to_root_high = 0,
                                   !.distance_to_root_middle = 0,
                                   !.distance_to_root_low = 0,
                                   !.parent_id = 65535,
                                   !.children_count = 255]]
    ELSE
    LET a == EaRecalcLoop(EaRecalcStart(m), nbrList, self)
        m1 == [m EXCEPT !.mlst_stay_active_for_next_n_periods = a.stay, !.ub = a.ub]
    IN  IF a.ub THEN m1
        ELSE IF a.best_parent # Null
        THEN IF a.number_of_potential_parents > 1 /\ coin
             THEN [m1 EXCEPT !.own_mlst_public_variable = Undef(a.children_count)]
             ELSE LET changed == \/ own.parent_id = 0
                                 \/ own.parent_id # a.best_parent.id
                                 \/ own.distance_to_root_high # a.distance_to_root_high
                                 \/ own.distance_to_root_middle # a.distance_to_root_middle
                                 \/ own.distance_to_root_low # a.distance_to_root_low
                                 \/ own.children_count # a.children_count
                  IN  [m1 EXCEPT !.mlst_stay_active_for_next_n_periods =
                                     IF changed THEN IF_CHANGE_STAY_ACTIVE_FOR_N_PERIODS ELSE @,
                                 !.divide_period_time_by = IF changed THEN 3 ELSE @,
                                 !.own_mlst_public_variable =
                                     [own EXCEPT !.parent_id = a.best_parent.id,
                                                 !.distance_to_root_high = a.distance_to_root_high,
                                                 !.distance_to_root_middle = a.distance_to_root_middle,
                                                 !.distance_to_root_low = a.distance_to_root_low,
                                                 !.children_count = a.children_count],
                                 !.mlst_parent = a.best_parent.ptr]
        ELSE [m1 EXCEPT !.own_mlst_public_variable = Undef(a.children_count)]

(***************************************************************************)
(* Energy-aware recalculation scenario: node 2 runs the energy-aware       *)
(* mlst_recalculate once on a neighbor list of any content and order.      *)
(***************************************************************************)
\* The variables neighbors publish in the energy-aware variant: the root's, an
\* undefined node's, a child of node 2, a defined node of undefined energy
\* state, and nodes of the energy states 1 to 3 with a parent other than node 2
\* whose high, middle and low distances are known or not, with 0 or 1 children;
\* 254 is the largest distance mlst_recalculate stores.
EaPublishedValues ==
    {EaPublicVariable(0, 0, 0, 65535, 255, 1),
     EaPublicVariable(255, 255, 255, 0, 0, 1),
     EaPublicVariable(2, 2, 2, 2, 0, 1),
     EaPublicVariable(1, 1, 1, 9, 0, 0),
     EaPublicVariable(2, 2, 2, 9, 0, 1),
     EaPublicVariable(254, 254, 254, 9, 1, 1)}
        \cup {EaPublicVariable(d[1], d[2], d[3], 9, 0, e) :
                 d \in {<<1, 1, 1>>, <<2, 1, 1>>, <<255, 2, 1>>, <<255, 255, 2>>},
                 e \in 1..3}
        \cup {EaPublicVariable(1, 1, 1, 9, 1, e) : e \in 1..3}

\* the orders in which k distinct neighbors can stand in the list of node 2
EaOrders(k) ==
    {g \in [1..k -> {1, 3, 4}] : \A i, j \in 1..k : i # j => g[i] # g[j]}

\* the neighbor list of node 2 with the neighbors g publishing the values f
EaNbrList(g, f) ==
    [i \in DOMAIN g |->
        [id |-> g[i], addr |-> g[i], public_var |-> f[i], age |-> 0, ptr |-> i]]

\* what node 2 was before the run: just booted (the zeroed globals, energy
\* state set to 1 by eamlst_set_energy_state)
EaBefores ==
    {[MlstStarted(2, RsuBoot).m EXCEPT
          !.own_mlst_public_variable = EaPublicVariable(0, 0, 0, 0, 0, 1)]}

InitRecalcEa ==
    /\ rsu = [n \in Nodes |-> RsuStarted(n)]
    /\ net = {}
    /\ lossLeft = 0
    /\ sendsLeft = [n \in Nodes |-> 0]
    /\ seen = [n \in Nodes |-> {}]
    /\ ev = Event("init", 0)
    /\ \E k \in 0..MaxNbrs :
          \E g \in EaOrders(k) :
             \E f \in [1..k -> EaPublishedValues] :
                mlst_pvn = [n \in Nodes |->
                               IF n = 2 THEN [PvnStarted EXCEPT !.nbrList = EaNbrList(g, f)]
                               ELSE PvnStarted]
    /\ \E b \in EaBefores :
          mlst = [n \in Nodes |-> IF n = 2 THEN b ELSE MlstStarted(n, RsuBoot).m]
    /\ links = {}
    /\ rounds = [n \in Nodes |-> 0]
    /\ clock = -1

\* mlst_process of the energy-aware variant: one call of mlst_recalculate; the
\* record of the run keeps the list and the locals after the loop
RecalculateEa(n) ==
    /\ ev.op = "init"
    /\ \E coin \in BOOLEAN :
          mlst' = [mlst EXCEPT ![n] = eamlst_recalculate(@, mlst_pvn[n].nbrList, n, coin)]
    /\ ev' = [op |-> "recalc", node |-> n, nbrs |-> mlst_pvn[n].nbrList,
              was |-> mlst[n],
              a |-> EaRecalcLoop(EaRecalcStart(mlst[n]), mlst_pvn[n].nbrList, n)]
    /\ UNCHANGED <<rsu, net, sendsLeft, lossLeft, seen, mlst_pvn, links, rounds, clock>>

NextRecalcEa == RecalculateEa(2)

SpecRecalcEa == InitRecalcEa /\ [][NextRecalcEa]_vars

(***************************************************************************)
(* Properties of the reliable unicast                                      *)
(***************************************************************************)
Queue(n) == rsu[n].queue

\* C1: the root hands a datagram (sender id, seqno) to the new-message
\* callback at most once; a retransmission of it is not delivered again.
C1_RootDeliversOnce ==
    ~(ev.op = "data" /\ IsRoot(ev.node) /\ ev.dlv /\ ev.again)

\* C2: a non-root node forwards (enqueues) an accepted (sender id, seqno) once;
\* its retransmission is not enqueued again, whatever other senders did.
C2_ForwardedOnce ==
    ~(ev.op = "data" /\ ~IsRoot(ev.node) /\ ev.fwd /\ ev.again)

\* C3: every data packet received, duplicate or not, at the root or at a
\* forwarder, is answered with exactly one ACK addressed to its sender.
C3_EveryDataPacketAcked ==
    ev.op = "data" =>
        /\ Cardinality(ev.tx) = 1
        /\ \A a \in ev.tx : a.kind = "ack" /\ a.from = ev.node /\ a.to = ev.pkt.from

C3_DuplicateAcked ==
    ev.op = "data" /\ ~IsRoot(ev.node) /\ ev.dup /\ ev.tx # {}

\* C4: an element is never transmitted more than MAX_TRIES + 1 times; when the
\* timeout discards one that always had a parent, it was transmitted exactly
\* MAX_TRIES + 1 = 6 times and a registered failure callback fired 6 times for
\* it; if that empties the queue and sleeping is allowed, RSU is offline.
C4_RetryExhaustion ==
    /\ \A n \in Nodes : \A i \in 1..Len(Queue(n)) : Queue(n)[i].tries <= MAX_TRIES + 1
    /\ (ev.op = "timeout" /\ ev.gone # NoElem) =>
          /\ ev.gone.tries = MAX_TRIES + 1
          /\ (~ev.gone.idle /\ rsu[ev.node].onLostMessageCB # 0)
                => ev.gone.fails = MAX_TRIES + 1
          /\ (Queue(ev.node) = <<>> /\ rsu[ev.node].is_allowed_to_sleep = 1)
                => rsu[ev.node].is_online = 0

C4_Exhausted ==
    /\ ev.op = "timeout" /\ ev.gone # NoElem /\ ~ev.gone.idle
    /\ ev.gone.fails = MAX_TRIES + 1
    /\ Queue(ev.node) = <<>> /\ rsu[ev.node].is_online = 0

\* C5: whatever the parent is, the failure callback is invoked at most
\* MAX_TRIES + 1 times for one queue element.
C5_FailureCallbackBound ==
    \A n \in Nodes : \A i \in 1..Len(Queue(n)) : Queue(n)[i].fails <= MAX_TRIES + 1

\* C6: an ACK removes only the element it answers, one that was transmitted.
C6_RemovedByOwnAck ==
    (ev.op = "ack" /\ ev.gone # NoElem) =>
        ev.gone.seqno = ev.pkt.seqno /\ ev.gone.tries > 0

\* C7 as stated: while the parent is 0 and the queue is not empty, no data
\* packet is transmitted, the head's tries stay and no element is discarded.
C7_NothingHappensWithoutParent ==
    [][\A n \in Nodes :
         (rsu[n].parent = 0 /\ Queue(n) # <<>>) =>
            /\ (ev'.op = "transmit" /\ ev'.node = n) => ev'.tx = {}
            /\ (rsu'[n].queue # <<>> /\ rsu'[n].queue[1].seqno = Queue(n)[1].seqno)
                  => rsu'[n].queue[1].tries = Queue(n)[1].tries
            /\ (ev'.op = "timeout" /\ ev'.node = n) => ev'.gone = NoElem]_vars

\* C7 amended: while the parent is 0 and the queue is not empty, no data packet
\* is transmitted, the head's tries stay, and the timeout discards the head
\* only if its tries had exceeded MAX_TRIES before the parent went; the timer
\* stays armed while the queue is not empty; and after set_parent installed a
\* parent, the head is transmitted unless the parent goes or the queue empties.
C7_WaitsForParent ==
    /\ [][\A n \in Nodes :
            (rsu[n].parent = 0 /\ Queue(n) # <<>>) =>
               /\ (ev'.op = "transmit" /\ ev'.node = n) => ev'.tx = {}
               /\ (rsu'[n].queue # <<>> /\ rsu'[n].queue[1].seqno = Queue(n)[1].seqno)
                     => rsu'[n].queue[1].tries = Queue(n)[1].tries
               /\ (ev'.op = "timeout" /\ ev'.node = n /\ ev'.gone # NoElem)
                     => Queue(n)[1].tries > MAX_TRIES
               /\ (rsu'[n].queue # <<>> => rsu'[n].timer # "off")]_vars
    /\ \A n \in Nodes :
          (ev.op = "setparent" /\ ev.node = n /\ rsu[n].parent # 0 /\ Queue(n) # <<>>)
             ~> \/ rsu[n].parent = 0
                \/ Queue(n) = <<>>
                \/ (ev.op = "transmit" /\ ev.node = n /\ ev.tx # {})

C7_SentAfterWaiting ==
    /\ ev.op = "transmit" /\ ev.tx # {}
    /\ Queue(ev.node)[1].idle /\ Queue(ev.node)[1].tries = 1

\* C8: only the head is transmitted (every other element has tries = 0), an
\* element is appended behind the others (the queue holds consecutive seqnos)
\* and the element that leaves is the oldest.
C8_HeadOnlyFifo ==
    /\ \A n \in Nodes : \A i \in 2..Len(Queue(n)) :
          /\ Queue(n)[i].tries = 0
          /\ Queue(n)[i].seqno = U8(Queue(n)[i - 1].seqno + 1)
    /\ (ev.op = "transmit" /\ ev.tx # {}) =>
          \A p \in ev.tx : p.seqno = Queue(ev.node)[1].seqno
    /\ (ev.gone # NoElem /\ Queue(ev.node) # <<>>) =>
          Queue(ev.node)[1].seqno = U8(ev.gone.seqno + 1)

C8_OldestLeft ==
    /\ ev.op = "ack" /\ ev.gone # NoElem /\ ev.gone.tries > 1
    /\ Queue(ev.node) # <<>>

\* C9: RSU is offline exactly when the queue is empty and sleeping is allowed.
C9_OfflineIffIdleAndAllowed ==
    \A n \in Nodes :
        rsu[n].is_online = 0 <=> (Queue(n) = <<>> /\ rsu[n].is_allowed_to_sleep = 1)

C9_ClosedByLastAck ==
    ev.op = "ack" /\ ev.gone # NoElem /\ rsu[ev.node].is_online = 0

(***************************************************************************)
(* Properties of the MLST election                                         *)
(***************************************************************************)
Published(n) == mlst[n].own_mlst_public_variable

\* the published parent ids lead from n to the root within k hops
RECURSIVE ChainToRoot(_, _)
ChainToRoot(n, k) ==
    /\ k > 0
    /\ Published(n).parent_id \in Linked
    /\ {n, Published(n).parent_id} \in links
    /\ \/ IsRoot(Published(n).parent_id)
       \/ ChainToRoot(Published(n).parent_id, k - 1)

Candidates(nbrs, self) ==
    {nbrs[i] : i \in {j \in DOMAIN nbrs :
                        /\ nbrs[j].public_var.parent_id # 0
                        /\ nbrs[j].public_var.parent_id # self
                        /\ nbrs[j].public_var.distance_to_root # 255}}

\* c is at least as good a parent as o: nearer, then more children, then lower id
AsGoodAs(c, o) ==
    LET cv == c.public_var
        ov == o.public_var
    IN  \/ cv.distance_to_root < ov.distance_to_root
        \/ /\ cv.distance_to_root = ov.distance_to_root
           /\ \/ cv.children_count > ov.children_count
              \/ cv.children_count = ov.children_count /\ c.id <= o.id

BestCandidates(nbrs, self) ==
    {c \in Candidates(nbrs, self) : \A o \in Candidates(nbrs, self) : AsGoodAs(c, o)}

SharesBest(nbrs, self) ==
    {o \in Candidates(nbrs, self) :
        \E c \in BestCandidates(nbrs, self) :
            /\ o.public_var.distance_to_root = c.public_var.distance_to_root
            /\ o.public_var.children_count = c.public_var.children_count}

\* C11: the best parent mlst_recalculate finds is the candidate with the least
\* distance, then the most children, then the lowest id, the tie count is the
\* number of candidates sharing its distance and children count, and neither
\* depends on the order of the list (both are functions of the set of entries).
C11_BestParentOfTheSet ==
    ev.op = "recalc" =>
        /\ ~ev.a.ub
        /\ ev.a.number_of_potential_parents = Cardinality(SharesBest(ev.nbrs, ev.node))
        /\ IF Candidates(ev.nbrs, ev.node) = {} THEN ev.a.best_parent = Null
           ELSE ev.a.best_parent \in BestCandidates(ev.nbrs, ev.node)

\* the same restricted to lists in which no neighbor publishes distance 254
C11_BelowLargestDistance ==
    (ev.op = "recalc"
        /\ \A i \in DOMAIN ev.nbrs : ev.nbrs[i].public_var.distance_to_root # 254)
    => /\ ~ev.a.ub
       /\ ev.a.number_of_potential_parents = Cardinality(SharesBest(ev.nbrs, ev.node))
       /\ IF Candidates(ev.nbrs, ev.node) = {} THEN ev.a.best_parent = Null
          ELSE ev.a.best_parent \in BestCandidates(ev.nbrs, ev.node)

\* what node n is at a decision: undefined, leaf or backbone
Undefined(n) == mlst[n].own_mlst_public_variable.parent_id = 0
Leaf(n) == ~Undefined(n) /\ mlst[n].own_mlst_public_variable.children_count = 0
Backbone(n) == ~Undefined(n) /\ ~Leaf(n)

\* C12: a node whose decision of the current round found it undefined or a
\* backbone has its PVN online, RSU sleeping disallowed and the RSU channels
\* open at every moment of the period wait of that round.
C12_UndefinedAndBackboneAwake ==
    \A n \in Mesh :
        mlst[n].branch \in {"undefined", "backbone"} =>
            /\ mlst_pvn[n].online = 1
            /\ rsu[n].is_allowed_to_sleep = 0
            /\ rsu[n].is_online = 1

\* node 2 became a backbone after a round as a leaf with closed channels, and
\* waits with its child asleep
C12_BackboneBesideSleepingLeaf ==
    /\ mlst[2].branch = "backbone" /\ rounds[2] = 1
    /\ mlst[2].own_mlst_public_variable.children_count > 0
    /\ mlst[3].branch = "leaf_sleep"
    /\ mlst_pvn[2].online = 1 /\ rsu[2].is_online = 1

\* the entries of node n's list for its published parent
ParentEntries(n) ==
    {i \in DOMAIN mlst_pvn[n].nbrList :
        mlst_pvn[n].nbrList[i].id = mlst[n].own_mlst_public_variable.parent_id}

\* C13: the decision of a round sets the PVN offline exactly if it finds the
\* node a leaf, the stay-active counter 0 and the parent's entry at most
\* MAX_AGE_OF_PARENT seconds old, and the PVN keeps that setting until the
\* node's next decision.
C13_OfflineOnlySettledLeaf ==
    [][\A n \in Mesh :
          IF rounds'[n] = rounds[n] + 1
          THEN mlst_pvn'[n].online = 0 <=>
                  /\ Leaf(n)'
                  /\ mlst'[n].mlst_stay_active_for_next_n_periods = 0
                  /\ ParentEntries(n)' # {}
                  /\ \A i \in ParentEntries(n)' :
                        mlst_pvn'[n].nbrList[i].age <= MAX_AGE_OF_PARENT
          ELSE mlst_pvn'[n].online = mlst_pvn[n].online]_vars

\* node 3 is a leaf that stayed online because its parent's entry is stale,
\* after having been offline
C13_LeafAwakeForStaleParent ==
    /\ mlst[3].branch = "leaf_awake" /\ rounds[3] = 1
    /\ mlst[3].mlst_stay_active_for_next_n_periods = 0
    /\ mlst_pvn[3].online = 1
    /\ \E i \in ParentEntries(3) : mlst_pvn[3].nbrList[i].age > MAX_AGE_OF_PARENT

\* C14: the root's PVN is online and its RSU may not sleep in every round, it
\* never takes a leaf branch, and every variable it has broadcast is
\* (distance 0, parent_id 0xFFFF, children_count 0xFF).
C14_RootAwakeAndConstant ==
    /\ mlst_pvn[1].online = 1
    /\ rsu[1].is_allowed_to_sleep = 0 /\ rsu[1].is_online = 1
    /\ mlst[1].branch \notin {"leaf_awake", "leaf_sleep"}
    /\ \A k \in Mesh : \A i \in DOMAIN mlst_pvn[k].nbrList :
          mlst_pvn[k].nbrList[i].id = 1 =>
             mlst_pvn[k].nbrList[i].public_var = PublicVariable(0, 65535, 255)

\* the root waits in the branch of line 291 (its mlst_parent is never set)
\* after its neighbors heard its broadcast
C14_RootHeard ==
    /\ mlst[1].branch = "undefined" /\ rounds[1] = 1
    /\ \E k \in Mesh : \E i \in DOMAIN mlst_pvn[k].nbrList :
          mlst_pvn[k].nbrList[i].id = 1 /\ mlst_pvn[k].nbrList[i].age > 0

\* C15: a sweep that deletes the entry of the node's parent leaves the node
\* undefined (parent_id 0, distance 0xFF, children_count 0, no parent
\* reference) and in the undefined branch of the same round; a sweep that
\* deletes only other entries leaves parent_id and distance as they were.
C15_ParentEvictionResets ==
    \A n \in Mesh :
        LET s == mlst[n].swept
            own == mlst[n].own_mlst_public_variable
        IN  IF s.parent_id \in s.gone
            THEN /\ own = PublicVariable(255, 0, 0)
                 /\ mlst[n].mlst_parent = 0
                 /\ mlst[n].branch = "undefined"
            ELSE s.gone # {} =>
                    /\ own.parent_id = s.parent_id
                    /\ own.distance_to_root = s.distance_to_root

\* node 2 deleted the entry of its parent, the root, in the sweep of this round
C15_RootEntrySwept ==
    /\ mlst[2].swept.parent_id = 1 /\ 1 \in mlst[2].swept.gone
    /\ mlst[2].branch = "undefined"

\* node 2 deleted the entry of its child 3 and keeps the root as parent
C15_ChildEntrySwept ==
    /\ mlst[2].swept.gone = {3} /\ mlst[2].swept.parent_id = 1
    /\ mlst[2].own_mlst_public_variable.parent_id = 1

\* the sweep of node n's current round deleted the entry of its parent and no
\* parent has been elected since
Orphaned(n) ==
    /\ mlst[n].swept.parent_id \in mlst[n].swept.gone
    /\ mlst[n].own_mlst_public_variable.parent_id = 0

\* C16: from the deletion of its parent's entry until a new parent is elected
\* node 2 keeps every queued message as it is: none is removed and none is
\* transmitted (no element's tries counter grows).
C16_OrphanKeepsQueue ==
    [][Orphaned(2) =>
          \A i \in DOMAIN Queue(2) :
              /\ i \in DOMAIN Queue(2)'
              /\ Queue(2)'[i].seqno = Queue(2)[i].seqno
              /\ Queue(2)'[i].tries = Queue(2)[i].tries]_vars

\* the entries of a list and the on_delete callbacks of a sweep record
Entries(nbrList) == {nbrList[i] : i \in DOMAIN nbrList}
Deletions(cbs, nbr) == {i \in DOMAIN cbs : cbs[i].cb = "delete" /\ cbs[i].nbr = nbr}

\* C17: after pvn_remove_old_neighbor_information no entry older than max_age
\* is left and every entry at most max_age old is still there, wherever the
\* outdated entries stood; on_delete has fired once for every entry removed
\* and for no other.
C17_SweepRemovesExactlyTheOutdated ==
    ev.op = "sweep" =>
        LET pvn == mlst_pvn[ev.node]
            left == Entries(pvn.nbrList)
        IN  /\ \A e \in left : e.age <= pvn.maximum_age_of_neighbor_information
            /\ \A e \in Entries(ev.before) :
                  e.age <= pvn.maximum_age_of_neighbor_information => e \in left
            /\ \A e \in Entries(ev.before) :
                  Cardinality(Deletions(ev.cbs, e)) = IF e \in left THEN 0 ELSE 1

\* what the sweep does guarantee: the entries at most max_age old stay, the
\* first entry left is not outdated, and on_delete fires once per removal
C17_FreshEntriesStay ==
    ev.op = "sweep" =>
        LET pvn == mlst_pvn[ev.node]
            left == Entries(pvn.nbrList)
        IN  /\ pvn.nbrList # <<>> =>
                  Head(pvn.nbrList).age <= pvn.maximum_age_of_neighbor_information
            /\ left \subseteq Entries(ev.before)
            /\ \A e \in Entries(ev.before) :
                  e.age <= pvn.maximum_age_of_neighbor_information => e \in left
            /\ \A e \in Entries(ev.before) :
                  Cardinality(Deletions(ev.cbs, e)) = IF e \in left THEN 0 ELSE 1

\* the callbacks of one kind in a record of callbacks
Fired(cbs, cb) == {i \in DOMAIN cbs : cbs[i].cb = cb}

\* C18: a receive that creates the entry of its sender fires on_new once and
\* on_change not at all; a receive for an existing entry never fires on_new
\* and fires on_change exactly if the installed comparison (parent_id or
\* children_count differ), or without one the byte-wise comparison, tells the
\* incoming variable from the stored one.
C18_NewOnceChangeIffDifferent ==
    ev.op = "receive" =>
        IF ~ev.had
        THEN /\ Cardinality(Fired(ev.cbs, "new")) = 1
             /\ \A i \in Fired(ev.cbs, "new") : ev.cbs[i].nbr.id = ev.id
             /\ Fired(ev.cbs, "change") = {}
        ELSE /\ Fired(ev.cbs, "new") = {}
             /\ Cardinality(Fired(ev.cbs, "change")) =
                   IF \/ mlst_pvn[ev.node].cmp = 0 /\ ev.stored # ev.data
                      \/ /\ mlst_pvn[ev.node].cmp # 0
                         /\ \/ ev.stored.parent_id # ev.data.parent_id
                            \/ ev.stored.children_count # ev.data.children_count
                   THEN 1 ELSE 0

\* a broadcast repeating the stored variable arrived and fired nothing
C18_IdenticalRepeat ==
    /\ ev.op = "receive" /\ ev.had /\ ev.stored = ev.data /\ ev.cbs = <<>>

\* the installed comparison ignored a change of the distance
C18_DistanceOnlyChange ==
    /\ ev.op = "receive" /\ ev.had /\ mlst_pvn[ev.node].cmp # 0
    /\ ev.stored # ev.data /\ ev.cbs = <<>>

\* C19: a PVN holds at most one entry per neighbor id; the variable of an entry
\* is the payload of the last broadcast received from its id, and its age is
\* the time since that receive.
C19_OneEntryPerIdLatestPayload ==
    LET l == mlst_pvn[2].nbrList
    IN  /\ \A i, j \in DOMAIN l : l[i].id = l[j].id => i = j
        /\ \A i \in DOMAIN l :
              /\ l[i].id \in Senders
              /\ l[i].public_var = ev.heard[l[i].id].data
              /\ l[i].age = ev.heard[l[i].id].age

\* both senders have an entry; the one of node 1 was overwritten by a later
\* broadcast with another payload and is older than the one of node 3
C19_Overwritten ==
    /\ Len(mlst_pvn[2].nbrList) = 2
    /\ ev.op = "receive" /\ ev.id = 1 /\ ev.had /\ ev.stored # ev.data
    /\ \E i \in DOMAIN mlst_pvn[2].nbrList :
          mlst_pvn[2].nbrList[i].id = 3 /\ mlst_pvn[2].nbrList[i].age > 0

\* node n's list shows nodes 2 and 3 as candidates with the same distance and
\* the same children count
TieAt(n) ==
    \E a, b \in Candidates(mlst_pvn[n].nbrList, n) :
        /\ a.id = 2 /\ b.id = 3
        /\ a.public_var.distance_to_root = b.public_var.distance_to_root
        /\ a.public_var.children_count = b.public_var.children_count

C20_CommittedToThree ==
    /\ Published(4).parent_id = 3
    /\ \E a, b \in Entries(mlst_pvn[4].nbrList) :
          /\ a.id = 2 /\ b.id = 3
          /\ a.public_var.distance_to_root = 1 /\ b.public_var.distance_to_root = 1
          /\ a.public_var.children_count = 0 /\ b.public_var.children_count = 1

\* the children `self` counts in a list: the undefined neighbors and those
\* publishing `self` as parent
CountedChildren(nbrs, self) ==
    Cardinality({i \in DOMAIN nbrs : nbrs[i].public_var.parent_id \in {0, self}})

\* the three outcomes of a recalculation of node `self` on the list nbrs that
\* ended with the published variable own
RecalcOutcome(nbrs, self, own) ==
    LET best == BestCandidates(nbrs, self)
        ties == Cardinality(SharesBest(nbrs, self))
        cc == CountedChildren(nbrs, self)
        Commit == {PublicVariable(b.public_var.distance_to_root + 1, b.id, cc) : b \in best}
        Defer == PublicVariable(255, 0, cc)
    IN  IF Candidates(nbrs, self) = {} THEN own = Defer
        ELSE IF ties = 1 THEN own \in Commit
        ELSE own \in Commit \cup {Defer}

\* C26: a recalculation of a non-root node ends undefined (parent_id 0,
\* distance 0xFF) if there is no candidate, committed to the best candidate at
\* its distance + 1 if that one is unique, and either committed to the
\* lowest-id best candidate or undefined if several are tied; children_count
\* is the count of this run.
C26_ThreeOutcomes ==
    ev.op = "recalc" =>
        /\ ~mlst[ev.node].ub
        /\ RecalcOutcome(ev.nbrs, ev.node, Published(ev.node))

\* the same restricted to lists in which no neighbor publishes distance 254
C26_OutcomesBelowLargestDistance ==
    (ev.op = "recalc"
        /\ \A i \in DOMAIN ev.nbrs : ev.nbrs[i].public_var.distance_to_root # 254)
    => /\ ~mlst[ev.node].ub
       /\ RecalcOutcome(ev.nbrs, ev.node, Published(ev.node))

\* the counters of node n after a recalculation
StayActiveCounter(n) == mlst[n].mlst_stay_active_for_next_n_periods
Divisor(n) == mlst[n].divide_period_time_by

\* the recalculation recorded in ev left another tuple than the one published
\* before it
TupleChanged == ev.op = "recalc" /\ Published(ev.node) # ev.was.own_mlst_public_variable

\* the list of the recalculation recorded in ev holds an undefined neighbor
SawUndefined == \E i \in DOMAIN ev.nbrs : ev.nbrs[i].public_var.parent_id = 0

\* C28 as stated: every recalculation that leaves another tuple than the one
\* published before, a transition into the undefined state or a deferral
\* included, sets the stay-active counter and the period divisor to 3.
C28_EveryChangeSetsBoth ==
    TupleChanged => StayActiveCounter(ev.node) = 3 /\ Divisor(ev.node) = 3

\* C28 as the code has it: a recalculation that commits to a parent with
\* another tuple than the one published before sets the stay-active counter
\* and the divisor to 3; one that changes the tuple by ending undefined leaves
\* the divisor as it was, and the stay-active counter too unless the list
\* holds an undefined neighbor, which sets it to 3.
C28_CommitChangeSetsBoth ==
    TupleChanged =>
        IF Published(ev.node).parent_id # 0
        THEN StayActiveCounter(ev.node) = 3 /\ Divisor(ev.node) = 3
        ELSE /\ Divisor(ev.node) = ev.was.divide_period_time_by
             /\ StayActiveCounter(ev.node) =
                   IF SawUndefined THEN IF_CHANGE_STAY_ACTIVE_FOR_N_PERIODS
                   ELSE ev.was.mlst_stay_active_for_next_n_periods

\* node 2 was committed with both counters run down and has committed to
\* another parent
C28_Recommitted ==
    /\ TupleChanged
    /\ ev.was.own_mlst_public_variable.parent_id # 0
    /\ ev.was.mlst_stay_active_for_next_n_periods = 0
    /\ Published(ev.node).parent_id \notin {0, ev.was.own_mlst_public_variable.parent_id}
    /\ StayActiveCounter(ev.node) = 3 /\ Divisor(ev.node) = 3

\* node 2 was committed with both counters run down and has become undefined
\* with both counters still run down
C28_UndefinedUnnoticed ==
    /\ TupleChanged
    /\ ev.was.own_mlst_public_variable.parent_id # 0
    /\ Published(ev.node).parent_id = 0
    /\ StayActiveCounter(ev.node) = 0 /\ Divisor(ev.node) = 1

\* C25 as stated: the failure callback is invoked only for a message whose
\* retries are exhausted, the one the timeout discards.
C25_CallbackOnlyAfterExhaustion ==
    (ev.op = "timeout" /\ ev.cb = 1) => ev.gone # NoElem

\* C25 as the code has it: every ACK timeout invokes the registered failure
\* callback once, whether the head of the queue is discarded (its tries are
\* above MAX_TRIES) or kept for the next transmission.
C25_CallbackAtEveryTimeout ==
    ev.op = "timeout" =>
        /\ ev.cb = IF rsu[ev.node].onLostMessageCB # 0 THEN 1 ELSE 0
        /\ IF ev.gone # NoElem
           THEN ev.gone.tries > MAX_TRIES
           ELSE /\ Queue(ev.node) # <<>>
                /\ Queue(ev.node)[1].tries <= MAX_TRIES
                /\ rsu[ev.node].timer = "send"

\* a timeout has invoked the failure callback for a message that was
\* transmitted, is kept and is about to be transmitted again
C25_CalledBeforeRetry ==
    /\ ev.op = "timeout" /\ ev.cb = 1 /\ ev.gone = NoElem
    /\ Queue(ev.node)[1].tries \in 1..MAX_TRIES
    /\ rsu[ev.node].timer = "send" /\ rsu[ev.node].parent # 0

\* the entries of node n's list that the MLST parent reference points to
Referenced(n) ==
    {i \in DOMAIN mlst_pvn[n].nbrList : mlst_pvn[n].nbrList[i].ptr = mlst[n].mlst_parent}

\* C27: on a node that is not the root, a published parent_id other than 0
\* is the id of an entry the PVN holds, and the MLST parent reference points
\* to exactly that entry.
C27_ParentReferenceLive ==
    \A n \in Linked \ {1} :
        Published(n).parent_id # 0 =>
            /\ Cardinality(Referenced(n)) = 1
            /\ \A i \in DOMAIN mlst_pvn[n].nbrList :
                  mlst_pvn[n].nbrList[i].id = Published(n).parent_id <=> i \in Referenced(n)

\* a node that is not the root has swept another entry than its parent's in
\* its last round and is still committed to its parent
C27_CommittedAfterEviction ==
    \E n \in Linked \ {1} :
        /\ Published(n).parent_id # 0
        /\ mlst[n].swept.gone # {}
        /\ Referenced(n) # {}

\* C24 as stated: a node whose PVN is offline has taken more than three
\* round decisions since its recalculation last changed the published tuple
\* and since a PVN callback last fired: none of the three decisions after
\* either sets the PVN offline.
C24_AwakeForThreeDecisions ==
    \A n \in Mesh : mlst_pvn[n].online = 0 => ev.since[n].count > 3

\* what the code does for C24: the counter set to 3 by the recalculation or by a
\* callback of a received broadcast is decremented at the end of that very
\* iteration, so none of the two decisions after sets the PVN offline, the
\* third may; onPvnDelete is invoked by the sweep at the top of an iteration,
\* whose decision leaves the PVN online.
C24_AwakeForTwoDecisions ==
    \A n \in Mesh :
        /\ mlst_pvn[n].online = 0 => ev.since[n].count > 2
        /\ mlst[n].swept.gone # {} => mlst_pvn[n].online = 1

\* a leaf with a fresh parent has set its PVN offline in the third decision
\* after something asked it to stay active
C24_OfflineAtThirdDecision ==
    \E n \in Mesh :
        /\ mlst_pvn[n].online = 0 /\ mlst[n].branch = "leaf_sleep"
        /\ ev.since[n].count = 3

C22_AwakeForThreeRounds ==
    \E n \in Mesh : ev.awake[n] = 3

\* C23: a node that runs with its PVN offline has its PVN online again
\* later (the entry of its parent is not refreshed meanwhile and gets older
\* than MAX_AGE_OF_PARENT), and a decision that finds the entry of the parent
\* older than that never sets the PVN offline.
C23_OfflineLeafWakes ==
    /\ \A n \in Mesh :
          (n \in Linked /\ mlst_pvn[n].online = 0)
              ~> (mlst_pvn[n].online = 1 \/ n \notin Linked)
    /\ [][\A n \in Mesh :
             (PeriodEnds(n) /\ mlst_pvn'[n].online = 0) => FreshParent(n)']_vars

\* a leaf whose stay-active counter is 0 has set its PVN online again because
\* the entry of its parent is older than MAX_AGE_OF_PARENT
C23_WokenByStaleParent ==
    \E n \in Mesh :
        /\ mlst[n].branch = "leaf_awake" /\ mlst_pvn[n].online = 1
        /\ mlst[n].mlst_stay_active_for_next_n_periods = 0
        /\ ~FreshParent(n)
        /\ ev.node = n

\* node n waits for the k-th time since its recalculation last changed the
\* published tuple, nothing else having asked it to stay active since
AfterChange(n, k) == ev.since[n] = [count |-> k, kind |-> "recalc"]

\* C29 as stated: the period wait that follows a recalculation that committed
\* to a changed tuple runs with the divisor 3.
C29_NextWaitByThree ==
    \A n \in Mesh \ {1} : (AfterChange(n, 1) /\ ~Undefined(n)) => Divisor(n) = 3

\* what the code does for C29: the divisor is within 1..3 and the stay-active
\* counter within 0..3; both are counted down at the end of the iteration that
\* set them to 3, so the period wait that follows a recalculation that
\* committed to a changed tuple runs with the divisor 2 (the counter at 2), and
\* the waits after it with the divisor 1.
C29_NextWaitByTwo ==
    \A n \in Mesh \ {1} :
        /\ Divisor(n) \in 1..3 /\ StayActiveCounter(n) \in 0..3
        /\ (AfterChange(n, 1) /\ ~Undefined(n)) =>
               Divisor(n) = 2 /\ StayActiveCounter(n) = 2
        /\ (\E k \in 2..MaxCount : AfterChange(n, k)) => Divisor(n) = 1

\* a node waits with the divisor 1 in the second period after it committed to
\* a changed tuple
C29_FullPeriodAgain ==
    \E n \in Mesh \ {1} : AfterChange(n, 2) /\ ~Undefined(n) /\ Divisor(n) = 1 /\ ev.node = n

\* node k is in range of node n with its broadcast channel open
Listening(k, n) == {k, n} \in links /\ k # n /\ mlst_pvn[k].online = 1

\* the entries node k holds for node n
EntriesFor(k, n) ==
    {i \in DOMAIN mlst_pvn[k].nbrList : mlst_pvn[k].nbrList[i].id = n}

\* C30: the period wait of node n over, in whatever branch n waited and
\* whether its PVN is online or offline, one tuple is recalculated, its
\* parent_id is pushed into RSU and it is broadcast once: every listening
\* neighbor holds it in a refreshed entry for n afterwards and nobody else's
\* table changes; the table of n itself changes by nothing but the sweep that
\* opens the next iteration.
C30_RecalculatePushBroadcast ==
    [][\A n \in Mesh :
          PeriodEnds(n) =>
              \E coin \in BOOLEAN :
                  LET pv == mlst_recalculate(mlst[n], mlst_pvn[n].nbrList, n, coin)
                                .own_mlst_public_variable
                  IN  /\ rsu'[n].parent = pv.parent_id
                      /\ \A k \in Mesh \ {n} :
                            IF Listening(k, n)
                            THEN /\ EntriesFor(k, n)' # {}
                                 /\ \A i \in EntriesFor(k, n)' :
                                       /\ mlst_pvn'[k].nbrList[i].age = 0
                                       /\ mlst_pvn'[k].nbrList[i].public_var = pv
                            ELSE mlst_pvn'[k] = mlst_pvn[k]
                      /\ mlst_pvn'[n].nbrList =
                            pvn_remove_old_neighbor_information(mlst_pvn[n]).pvn.nbrList]_vars

\* a sleeping leaf has broadcast with its PVN offline, a neighbor has heard
\* it, and the leaf sleeps on
C30_HeardWhileOffline ==
    \E n \in Mesh :
        /\ ev.node = n /\ ev.online = 0 /\ mlst_pvn[n].online = 0
        /\ \E k \in Mesh \ {n} :
              \E i \in EntriesFor(k, n) : mlst_pvn[k].nbrList[i].age = 0

\* the root is switched off and no node holds an entry for it any more
RootForgotten ==
    /\ 1 \notin Linked
    /\ \A n \in Linked :
          \A i \in DOMAIN mlst_pvn[n].nbrList : mlst_pvn[n].nbrList[i].id # 1

\* C21: once the root is removed and its entry has aged out everywhere, a
\* node that is undefined stays undefined.
C21_UndefinedForGood ==
    [][\A n \in Nodes \ {1} :
          (RootForgotten /\ Undefined(n)) => Undefined(n)']_vars

\* the history list of the node of the add recorded in ev, after and before it
HistoryList == rsu[ev.node].history.list
HistoryBefore == ev.before.list

\* the entries of the other senders, in their order
OfOthers(list, from) == SelectSeq(list, LAMBDA e : e.id # from)

\* C31: after rsu_add_history(id, s) the history knows (id, s) and no other
\* seqno of id, the new entry is the last one, and the entries of the other
\* ids are the ones held before, in their order, but for the oldest ones
\* dropped when more than MAX_HISTORY_SIZE entries are held.
C31_AddedEntryKnown ==
    ev.op = "add" =>
        /\ rsu_check_history(rsu[ev.node].history, ev.from, ev.seqno) = 1
        /\ \A s \in Seqnos \ {ev.seqno} :
              rsu_check_history(rsu[ev.node].history, ev.from, s) = 0
        /\ HistoryList # <<>>
        /\ HistoryList[Len(HistoryList)] = [id |-> ev.from, seqno |-> ev.seqno]
        /\ Len(OfOthers(HistoryBefore, ev.from)) < MAX_HISTORY_SIZE =>
               OfOthers(HistoryList, ev.from) = OfOthers(HistoryBefore, ev.from)

\* C32: the history holds at most MAX_HISTORY_SIZE entries, at most one for a
\* sender, and an add drops an entry of another sender only when the list
\* holds more than MAX_HISTORY_SIZE entries.
C32_EvictsOnlyWhenFull ==
    ev.op = "add" =>
        /\ Len(HistoryList) <= MAX_HISTORY_SIZE
        /\ \A i, j \in DOMAIN HistoryList : HistoryList[i].id = HistoryList[j].id => i = j
        /\ Len(OfOthers(HistoryBefore, ev.from)) < MAX_HISTORY_SIZE =>
               OfOthers(HistoryList, ev.from) = OfOthers(HistoryBefore, ev.from)

\* C40: rsu_messages_in_queue is the number of elements of the send queue
\* and rsu_history_size the number of entries of the history list.
C40_CountersMirrorLists ==
    \A n \in Nodes :
        /\ rsu[n].messages_in_queue = Len(Queue(n))
        /\ rsu[n].history.size = Len(rsu[n].history.list)


\* the neighbors of `self` that are candidates for parent in the energy-aware
\* variant: defined, not a child of self, and of a known energy state
EaCandidates(nbrs, self) ==
    {nbrs[i] : i \in {j \in DOMAIN nbrs :
                        /\ nbrs[j].public_var.parent_id # 0
                        /\ nbrs[j].public_var.parent_id # self
                        /\ nbrs[j].public_var.energy_state # 0}}

Tiers == <<"high", "middle", "low">>

\* the stored distance of a public variable in a tier
TierDistance(pv, t) ==
    CASE t = "high" -> pv.distance_to_root_high
      [] t = "middle" -> pv.distance_to_root_middle
      [] OTHER -> pv.distance_to_root_low

\* the candidates a tier admits: high only energy state 1, middle the states
\* 1 and 2, low any state; each with a known distance of that tier
Admitted(nbrs, self, t) ==
    {c \in EaCandidates(nbrs, self) :
        /\ TierDistance(c.public_var, t) # 255
        /\ CASE t = "high" -> c.public_var.energy_state = 1
             [] t = "middle" -> c.public_var.energy_state \in {1, 2}
             [] OTHER -> TRUE}

\* the highest tier that admits a candidate, 0 if none does
ChosenTier(nbrs, self) ==
    IF Admitted(nbrs, self, "high") # {} THEN 1
    ELSE IF Admitted(nbrs, self, "middle") # {} THEN 2
    ELSE IF Admitted(nbrs, self, "low") # {} THEN 3
    ELSE 0

\* the best candidates of a tier: nearest, then most children, then lowest id
BestOfTier(nbrs, self, t) ==
    {c \in Admitted(nbrs, self, t) :
        \A o \in Admitted(nbrs, self, t) :
            LET cd == TierDistance(c.public_var, t)
                od == TierDistance(o.public_var, t)
            IN  \/ cd < od
                \/ /\ cd = od
                   /\ \/ c.public_var.children_count > o.public_var.children_count
                      \/ /\ c.public_var.children_count = o.public_var.children_count
                         /\ c.id <= o.id}

\* the entries of a list at distance 254 in some tier
AtLargestDistance(nbrs) ==
    {i \in DOMAIN nbrs : \E t \in {"high", "middle", "low"} :
                             TierDistance(nbrs[i].public_var, t) = 254}

\* C33: in the energy-aware variant the neighbors that are undefined, children
\* of the node or of energy state 0 are counted as children, and the best
\* parent is the candidate of the highest tier admitting any candidate that is
\* nearest in that tier, then has the most children, then the lowest id; it is
\* a function of the set of entries, whatever the order of the list.
C33_BestParentOfHighestTier ==
    ev.op = "recalc" =>
        /\ ~ev.a.ub
        /\ ev.a.children_count =
              Cardinality({i \in DOMAIN ev.nbrs :
                              ev.nbrs[i] \notin EaCandidates(ev.nbrs, ev.node)})
        /\ IF ChosenTier(ev.nbrs, ev.node) = 0 THEN ev.a.best_parent = Null
           ELSE ev.a.best_parent
                    \in BestOfTier(ev.nbrs, ev.node, Tiers[ChosenTier(ev.nbrs, ev.node)])

\* the same restricted to lists in which no neighbor publishes distance 254
C33_BelowLargestDistance ==
    (ev.op = "recalc" /\ AtLargestDistance(ev.nbrs) = {}) =>
        /\ ~ev.a.ub
        /\ ev.a.children_count =
              Cardinality({i \in DOMAIN ev.nbrs :
                              ev.nbrs[i] \notin EaCandidates(ev.nbrs, ev.node)})
        /\ IF ChosenTier(ev.nbrs, ev.node) = 0 THEN ev.a.best_parent = Null
           ELSE ev.a.best_parent
                    \in BestOfTier(ev.nbrs, ev.node, Tiers[ChosenTier(ev.nbrs, ev.node)])

\* a run that commits to a parent
EaCommitted ==
    /\ ev.op = "recalc"
    /\ ~ev.a.ub
    /\ mlst[ev.node].own_mlst_public_variable.parent_id # 0

\* C34: after a recompute of the energy-aware variant that commits to a
\* parent, each published distance that is not 0xFF is the chosen parent's
\* stored distance of the same tier plus 1.
C34_DistancesOfTheParent ==
    EaCommitted =>
        \A t \in {"high", "middle", "low"} :
            LET d == TierDistance(mlst[ev.node].own_mlst_public_variable, t)
            IN  d # 255 => d = TierDistance(ev.a.best_parent.public_var, t) + 1

\* what the code does for C34: each published distance that is not 0xFF is the
\* least stored distance of that tier among the candidates the tier admits,
\* plus 1, whichever neighbor becomes the parent.
C34_DistancesOfTheNearest ==
    EaCommitted =>
        \A t \in {"high", "middle", "low"} :
            LET d == TierDistance(mlst[ev.node].own_mlst_public_variable, t)
            IN  d # 255 =>
                   /\ \E c \in Admitted(ev.nbrs, ev.node, t) :
                         d = TierDistance(c.public_var, t) + 1
                   /\ \A c \in Admitted(ev.nbrs, ev.node, t) :
                         d <= TierDistance(c.public_var, t) + 1

\* a committed run whose published middle distance is nearer than the chosen
\* high-tier parent's
C34_NearerThanParent ==
    /\ EaCommitted
    /\ mlst[ev.node].own_mlst_public_variable.distance_to_root_high # 255
    /\ mlst[ev.node].own_mlst_public_variable.distance_to_root_middle
          < ev.a.best_parent.public_var.distance_to_root_middle + 1


\* C35: pvn_neighborhood_size is the number of entries of the neighbor list,
\* after any receives and sweeps, whichever callbacks are installed.
C35_SizeCountsEntries ==
    \A n \in Nodes : mlst_pvn[n].neighborhood_size = Len(mlst_pvn[n].nbrList)

\* the same for a PVN with both the onNew and the onDelete callback installed
C35_SizeCountsEntriesWithCallbacks ==
    \A n \in Nodes :
        (mlst_pvn[n].callbacks.onNew # 0 /\ mlst_pvn[n].callbacks.onDelete # 0)
            => mlst_pvn[n].neighborhood_size = Len(mlst_pvn[n].nbrList)

\* C39: the link address of every neighbor entry encodes the id of the entry.
C39_AddressEncodesId ==
    \A n \in Nodes :
        \A i \in DOMAIN mlst_pvn[n].nbrList :
            mlst_pvn[n].nbrList[i].addr = mlst_pvn[n].nbrList[i].id


\* C38: at every node the RSU timer is pending exactly when the send queue is
\* not empty; so a queued message always has a timer armed for it and the
\* timer callbacks, which run only from a pending timer, find a queue element.
C38_TimerIffQueued ==
    \A n \in Nodes : (rsu[n].timer # "off") <=> (Queue(n) # <<>>)

\* a timeout has discarded the head of the queue, another message is queued
\* behind it and the timer is set for its transmission
C38_ArmedAfterDiscard ==
    /\ ev.op = "timeout"
    /\ ev.gone # NoElem
    /\ Queue(ev.node) # <<>>
    /\ rsu[ev.node].timer = "send"


\* the bytes of an envelope: the seqno byte, then the application bytes
\* (rsunicast.h 262-268)
EnvelopeBytes(e) == <<e.seqno>> \o e.msg

\* the application bytes passed to mlst_send so far, at any node
PassedToSend ==
    {m \in Nodes \X (1..MaxSends) : m[2] > sendsLeft[m[1]] /\ m[2] <= StampSends(m[1])}

\* C36: a call of rsunicast_send, for an own message or a forwarded one, puts
\* the node's sequence counter in front of the bytes and advances the counter
\* by one modulo 256; a forwarder queues the received bytes without their
\* seqno byte under its own counter; the bytes the root application receives
\* are bytes an application passed to mlst_send.
C36_StampedWithOwnCounter ==
    [][LET n == ev'.node
           last == rsu'[n].queue[Len(rsu'[n].queue)]
       IN  /\ (ev'.op = "send" \/ (ev'.op = "data" /\ ev'.fwd)) =>
                 /\ Len(rsu'[n].queue) = Len(rsu[n].queue) + 1
                 /\ Head(EnvelopeBytes(last)) = rsu[n].seqno
                 /\ rsu'[n].seqno = (rsu[n].seqno + 1) % 256
           /\ (ev'.op = "send") =>
                 Tail(EnvelopeBytes(last)) = <<n, sendsLeft[n]>>
           /\ (ev'.op = "data" /\ ev'.fwd) =>
                 Tail(EnvelopeBytes(last)) = Tail(EnvelopeBytes(ev'.pkt))
           /\ (ev'.op = "data" /\ ev'.dlv) =>
                 /\ IsRoot(n)
                 /\ Tail(EnvelopeBytes(ev'.pkt)) \in PassedToSend']_vars

\* the root has received a message of node 3 in an envelope that the forwarder
\* 2 stamped with its own counter 255, which then wrapped to 0, while node 3
\* had stamped another number
C36_ForwardedAcrossWrap ==
    /\ ev.op = "data" /\ ev.dlv /\ ev.node = 1
    /\ ev.pkt.msg[1] = 3
    /\ ev.pkt.from = 2
    /\ ev.pkt.seqno = 255
    /\ rsu[2].seqno \in {0, 1}
    /\ rsu[3].seqno \in {1, 2}


\* C37: a call in which an allocation failed is a no-op: the node goes on, and
\* the send queue and the neighbor table are as they were before the call.
C37_FailedAllocationIsNoOp ==
    ev.failed =>
        /\ ~ev.halted
        /\ rsu[ev.node].queue = ev.rsuWas.queue
        /\ mlst_pvn[ev.node].nbrList = ev.pvnWas.nbrList

\* once the write through the null pointer has stopped the node it runs no
\* further call
C37_StoppedForGood ==
    [][ev.halted => ev'.halted]_vars

====
